---- MODULE Spec2Model ----
(***************************************************************************)
(* Model of the continuous voice-conversation engine of the frontend:      *)
(*   useContinuousVoiceConversation  (turn-taking state machine)           *)
(*   useAudioRecorder                (capture lifecycle of one utterance)  *)
(*   useNaturalTTS / useAudioPlaybackManager (speech player)               *)
(*   useWhisperTranscription         (transcription gateway call)          *)
(*   useStreamingTTS                 (chunked speech playback)             *)
(*                                                                         *)
(* Every handler of the hooks is an operator from a store (a record of all *)
(* refs and React state values) to the store after the handler's           *)
(* synchronous run; an action applies one handler, or one continuation of  *)
(* an async handler after an await, to the current store.  React state     *)
(* read through a closure is read from the snapshot the closure captured.  *)
(***************************************************************************)
EXTENDS Naturals, Integers, Sequences, FiniteSets, TLC

(* ------------------------------ bounds -------------------------------- *)
MaxJobs == 3      \* speak() calls whose audio or request is still alive
MaxRecs == 2      \* MediaRecorder objects alive at once
MaxTimers == 2    \* anonymous restart timers pending at once
MaxStreams == 2   \* answer streams in flight at once
MaxTrans == 1     \* transcription requests in flight at once
MaxPresses == 2     \* calls of the hook's API by the user
MaxFaults == 1      \* failures of the browser or the network
MaxRecordings == 3  \* calls of the recorder's startRecording
MaxEvents == 5      \* all of the three together
MaxSpeaks == 2      \* calls of useStreamingTTS.speakStreaming
MaxChunks == 3      \* audio chunks read from /api/tts/stream

(* ------------------- recorder times, in ticks ------------------------- *)
TickMs == 100           \* one tick of the recorder's clock, the confirmation delay
SilenceTicks == 20      \* silenceThreshold = 2.0 s
MinTicks == 5           \* minRecordingTime = 0.5 s
MaxTicks == 100         \* maxRecordingTime = 10.0 s
ConfirmTicks == 1       \* the 100 ms silence-confirmation timer
DetectDelayTicks == 3   \* checkSilence starts 300 ms after the recorder
FallbackTicks == 50     \* Math.min(maxRecordingTime * 1000, 5000)
FrameSkip == 3          \* SpeechDetector.frameSkip
Den == 36000            \* scores are kept as whole multiples of 1/36000: the
                        \* divisors 1500, 2000, 4000, 1000, 3000, 2*8, 2*25 and
                        \* 3*3 of the score functions all divide it

(* --------------------- stop-phrase detection -------------------------- *)
\* A transcript is a sequence of one-character strings.
Lo == <<"a","b","c","d","e","f","g","h","i","j","k","l","m",
        "n","o","p","q","r","s","t","u","v","w","x","y","z">>
Up == <<"A","B","C","D","E","F","G","H","I","J","K","L","M",
        "N","O","P","Q","R","S","T","U","V","W","X","Y","Z">>
Digits == {"0","1","2","3","4","5","6","7","8","9"}
Punct == {".", ",", "!", "?", ";", ":"}

Range(f) == {f[i] : i \in DOMAIN f}

\* String.prototype.toLowerCase on one character
LowerChar(c) ==
  IF \E i \in DOMAIN Up : Up[i] = c
  THEN Lo[CHOOSE i \in DOMAIN Up : Up[i] = c]
  ELSE c

ToLowerCase(str) == [i \in DOMAIN str |-> LowerChar(str[i])]

\* String.prototype.trim (the only white space of the model is " ")
RECURSIVE TrimLeft(_)
TrimLeft(str) ==
  IF str # <<>> /\ Head(str) = " " THEN TrimLeft(Tail(str)) ELSE str

RECURSIVE TrimRight(_)
TrimRight(str) ==
  IF str # <<>> /\ str[Len(str)] = " "
  THEN TrimRight(SubSeq(str, 1, Len(str) - 1))
  ELSE str

Trim(str) == TrimRight(TrimLeft(str))

\* normalized.replace(/[.,!?;:]/g, " ")
ReplacePunct(str) == [i \in DOMAIN str |-> IF str[i] \in Punct THEN " " ELSE str[i]]

\* cleaned.split(/\s+/).filter(w => w.length > 0), as the set of words
RECURSIVE SplitWords(_, _, _)
SplitWords(str, cur, acc) ==
  IF str = <<>>
  THEN IF cur = <<>> THEN acc ELSE acc \cup {cur}
  ELSE IF Head(str) = " "
       THEN SplitWords(Tail(str), <<>>, IF cur = <<>> THEN acc ELSE acc \cup {cur})
       ELSE SplitWords(Tail(str), Append(cur, Head(str)), acc)

\* \w of a JavaScript regular expression
IsWordChar(c) == c \in Range(Lo) \cup Range(Up) \cup Digits \cup {"_"}

\* \b at the gap before position p (1..Len+1) of str
WordBoundary(str, p) ==
  LET before == p > 1 /\ IsWordChar(str[p - 1])
      after == p <= Len(str) /\ IsWordChar(str[p])
  IN before # after

\* new RegExp(`\\b${keyword}\\b`, "i").test(normalized)
KeywordRegexTest(keyword, str) ==
  \E p \in 1..Len(str) :
    /\ p + Len(keyword) - 1 <= Len(str)
    /\ ToLowerCase(SubSeq(str, p, p + Len(keyword) - 1)) = ToLowerCase(keyword)
    /\ WordBoundary(str, p)
    /\ WordBoundary(str, p + Len(keyword))

STOP_KEYWORDS ==
  { <<"s","t","o","p">>,
    <<"e","n","d">>,
    <<"e","n","d"," ","c","o","n","v","e","r","s","a","t","i","o","n">>,
    <<"g","o","o","d","b","y","e">>,
    <<"b","y","e">>,
    <<"e","x","i","t">>,
    <<"q","u","i","t">>,
    <<"f","i","n","i","s","h">>,
    <<"d","o","n","e">>,
    <<"t","h","a","t","'","s"," ","a","l","l">>,
    <<"t","h","a","n","k"," ","y","o","u">>,
    <<"t","h","a","n","k","s">>,
    <<"n","o"," ","m","o","r","e">>,
    <<"c","a","n","c","e","l">> }

\* containsStopKeyword without its regular expression
containsStopKeywordWords(transcript) ==
  LET normalized == Trim(ToLowerCase(transcript))
      words == SplitWords(ReplacePunct(normalized), <<>>, {})
  IN \E keyword \in STOP_KEYWORDS : normalized = keyword \/ keyword \in words

containsStopKeyword(transcript) ==
  LET normalized == Trim(ToLowerCase(transcript))
      cleaned == ReplacePunct(normalized)
      words == SplitWords(cleaned, <<>>, {})
  IN \E keyword \in STOP_KEYWORDS :
       \/ normalized = keyword
       \/ keyword \in words
       \/ KeywordRegexTest(keyword, normalized)

\* transcripts the transcription service returns in the model
TxEnd == <<"e","n","d">>
TxEndCap == <<"E","n","d",".">>
TxBend == <<"b","e","n","d">>
TxHi == <<"h","i">>
Transcripts == {TxEnd, TxEndCap, TxBend, TxHi}


(* ------------------------------ state --------------------------------- *)
VARIABLES
  \* useContinuousVoiceConversation
  sessionActive,      \* sessionActiveRef
  state,              \* stateRef / currentState
  pendingState,       \* pendingStateRef ("none" = null)
  transTimer,         \* stateTransitionTimerRef: target of the armed debounce timer
  convTimer,          \* conversationTimeoutRef: the 30 s timer is armed
  convStart,          \* conversationStartTimeRef is not null
  speechConv,         \* speechDetectedInConversationRef
  ttsCanceled,        \* ttsCanceledRef
  ttsExplicit,        \* ttsExplicitlyStoppedRef
  ttsSpeaking,        \* ttsSpeakingRef
  sharedStreamRef,    \* "null", "live" (tracks live) or "dead" (tracks stopped)
  startPc,            \* startConversation: "idle" or "await" (unlock / getUserMedia)
  startSnap,          \* closure of the startConversation call in flight
  timers,             \* bag of anonymous setTimeout restart timers
  streams,            \* answer streams (streamChatResponse calls) in flight
  abortRef,           \* streamingAbortControllerRef: index into streams, 0 = null
  trans,              \* bag of transcribe() calls in flight (by closure)
  \* useAudioRecorder
  isRecording,        \* React state
  isRecordingRef,
  mediaRecorderRef,   \* index into recs; 0 = null, -1 = a recorder that is inactive
  recs,               \* MediaRecorder objects
  hasChunks,          \* audioChunksRef.current.length > 0
  speechDetectedRef,
  stoppedByMaxTimeRef,
  isSharedStreamRef,
  streamRef,          \* "null", "shared" or "own"
  acq,                \* bag of recorder getUserMedia calls in flight (by closure)
  \* useAudioPlaybackManager
  jobs,               \* play() calls and their audio element / utterance
  currentAudioRef,    \* index into jobs, 0 = null
  isPlaying,          \* React state
  \* history variables of the properties
  endedBy,            \* how the session was last ended; "none" since the last start
  lastReq,            \* target of the latest transitionTo call of the open debounce window
  lastTx,             \* what onTranscriptionComplete last did
  onErrorCalled,      \* the handler that ran last called the caller's onError
  failure,            \* what failed in the handler that ran last: "none",
                      \* "recording", "noData", "microphone", "stream" or
                      \* "streamEvent"
  completed,          \* the handler that ran last called onRecordingComplete
  transFailed,        \* the handler that ran last was a failed transcription:
                      \* "no", or "active"/"inactive", the session before it
  bargeIn,            \* recordings started since stopSpeakingAndListen interrupted a
                      \* playback and not yet stopped; -1: no barge-in is open
  afterPlayback,      \* recordings started since a playback ended by itself and not
                      \* yet stopped; -1: none ended, or a new one has started
  heardSinceArm,      \* a frame was speech since the conversation timeout was last armed
  \* bounds of the exploration
  presses,            \* calls of the hook's API by the user so far
  faults,             \* failures of the browser or the network so far
  recordings          \* calls of the recorder's startRecording so far

\* the clock of useAudioRecorder: silence detection of one recording
VARIABLES
  micSpeech,          \* what detectSpeech() answers for the sound at the microphone now
  elapsed,            \* ticks since startTimeRef
  silence,            \* ticks since lastSpeechEndTimeRef
  detectDelay,        \* the 300 ms timer that starts checkSilence: ticks left, -1 = none
  animationFrameRef,  \* a checkSilence frame is requested
  analyserRef,        \* analyserRef is not null
  silenceTimerRef,    \* [kind, left]: "none", "confirm" (100 ms) or "fallback"
  maxTimeTimerRef,    \* ticks left, -1 = none
  framed,             \* checkSilence has run in the current tick
  \* history variables of the properties
  heardSpeech,        \* a frame of this recording was classified as speech
  resumed,            \* the microphone heard speech while the confirmation timer was armed
  armedDue,           \* the conditions of the auto-stop held when the timer was armed
  stopCause,          \* what called stopRecording: silence, maxTime, fallback, manual
  lastResult          \* what onstop last passed to onRecordingComplete

\* useStreamingTTS: its state, refs, calls and audio elements as one record
VARIABLE streamingTTS

\* SpeechDetector: the fields of one instance, and what detectSpeech last returned
VARIABLE speechDetector

\* useAudioRecorder.checkSilence: backgroundNoiseLevelRef and what the last
\* frame was taken for
VARIABLE silenceCheck

\* onTranscriptionComplete on its own: the transcript it was given and the
\* branch it took
VARIABLE stopCheck

detectorVars == << speechDetector, silenceCheck, stopCheck >>

timingVars == << micSpeech, elapsed, silence, detectDelay, animationFrameRef, analyserRef,
                 silenceTimerRef, maxTimeTimerRef, framed, heardSpeech, resumed,
                 armedDue, stopCause, lastResult >>

mainVars == << sessionActive, state, pendingState, transTimer, convTimer, convStart,
           speechConv, ttsCanceled, ttsExplicit, ttsSpeaking, sharedStreamRef,
           startPc, startSnap, timers, streams, abortRef, trans,
           isRecording, isRecordingRef, mediaRecorderRef, recs, hasChunks,
           speechDetectedRef, stoppedByMaxTimeRef, isSharedStreamRef, streamRef, acq,
           jobs, currentAudioRef, isPlaying, endedBy, lastReq, lastTx,
           onErrorCalled, failure, completed, transFailed, heardSinceArm, bargeIn, afterPlayback,
           presses, faults, recordings >>

vars == << mainVars, timingVars, streamingTTS, detectorVars >>

ConversationState == {"idle", "listening", "processing", "speaking"}

\* the store: all of the above as one record, plus "overflow", set when a
\* handler would exceed a bound of the model
Cur ==
  [ sessionActive |-> sessionActive, state |-> state, pendingState |-> pendingState,
    transTimer |-> transTimer, convTimer |-> convTimer, convStart |-> convStart,
    speechConv |-> speechConv, ttsCanceled |-> ttsCanceled, ttsExplicit |-> ttsExplicit,
    ttsSpeaking |-> ttsSpeaking, sharedStreamRef |-> sharedStreamRef,
    startPc |-> startPc, startSnap |-> startSnap, timers |-> timers,
    streams |-> streams, abortRef |-> abortRef, trans |-> trans,
    isRecording |-> isRecording, isRecordingRef |-> isRecordingRef,
    mediaRecorderRef |-> mediaRecorderRef, recs |-> recs, hasChunks |-> hasChunks,
    speechDetectedRef |-> speechDetectedRef, stoppedByMaxTimeRef |-> stoppedByMaxTimeRef,
    isSharedStreamRef |-> isSharedStreamRef, streamRef |-> streamRef, acq |-> acq,
    jobs |-> jobs, currentAudioRef |-> currentAudioRef, isPlaying |-> isPlaying,
    endedBy |-> endedBy, lastReq |-> lastReq, lastTx |-> lastTx,
    onErrorCalled |-> FALSE, failure |-> "none", completed |-> FALSE,
    transFailed |-> "no", heardSinceArm |-> heardSinceArm, bargeIn |-> bargeIn, afterPlayback |-> afterPlayback,
    presses |-> presses, faults |-> faults, recordings |-> recordings,
    overflow |-> FALSE ]

NoTimer == [kind |-> "none", left |-> 0]
NoResult == [hasSpeech |-> FALSE, byMax |-> FALSE, cause |-> "none", heard |-> FALSE]

\* a closure that captured nothing of interest; unused slots
NoSnap == [rec |-> FALSE, play |-> FALSE, shared |-> FALSE]
FreeJob == [pc |-> "free", kind |-> "html", snap |-> FALSE, pre |-> FALSE]
FreeRec == [pc |-> "free", snap |-> NoSnap, own |-> FALSE]
FreeStream == [pc |-> "free", aborted |-> FALSE, text |-> FALSE, trig |-> FALSE]

\* slot numbers mean nothing: the objects in use are kept in the first slots
Compact(f, free) ==
  LET used == SelectSeq([i \in 1..Len(f) |-> i], LAMBDA i : f[i] # free)
  IN [k \in 1..Len(f) |-> IF k <= Len(used) THEN f[used[k]] ELSE free]
Renumber(f, free, r) ==
  IF r <= 0 THEN r
  ELSE Len(SelectSeq([i \in 1..r |-> i], LAMBDA i : f[i] # free))

CommitStore(s) ==
  /\ ~s.overflow
  /\ sessionActive' = s.sessionActive /\ state' = s.state
  /\ pendingState' = s.pendingState /\ transTimer' = s.transTimer
  /\ convTimer' = s.convTimer /\ convStart' = s.convStart
  /\ speechConv' = s.speechConv /\ ttsCanceled' = s.ttsCanceled
  /\ ttsExplicit' = s.ttsExplicit /\ ttsSpeaking' = s.ttsSpeaking
  /\ sharedStreamRef' = s.sharedStreamRef
  /\ startPc' = s.startPc /\ startSnap' = s.startSnap /\ timers' = s.timers
  /\ streams' = s.streams /\ abortRef' = s.abortRef /\ trans' = s.trans
  /\ isRecording' = s.isRecording /\ isRecordingRef' = s.isRecordingRef
  /\ mediaRecorderRef' = Renumber(s.recs, FreeRec, s.mediaRecorderRef)
  /\ recs' = Compact(s.recs, FreeRec) /\ hasChunks' = s.hasChunks
  /\ speechDetectedRef' = s.speechDetectedRef
  /\ stoppedByMaxTimeRef' = s.stoppedByMaxTimeRef
  /\ isSharedStreamRef' = s.isSharedStreamRef /\ streamRef' = s.streamRef /\ acq' = s.acq
  /\ jobs' = Compact(s.jobs, FreeJob)
  /\ currentAudioRef' = Renumber(s.jobs, FreeJob, s.currentAudioRef)
  /\ isPlaying' = s.isPlaying
  /\ endedBy' = s.endedBy /\ lastReq' = s.lastReq /\ lastTx' = s.lastTx
  /\ onErrorCalled' = s.onErrorCalled /\ failure' = s.failure
  /\ completed' = s.completed
  /\ transFailed' = s.transFailed
  /\ heardSinceArm' = s.heardSinceArm /\ bargeIn' = s.bargeIn
  /\ afterPlayback' = s.afterPlayback
  /\ presses' = s.presses /\ faults' = s.faults /\ recordings' = s.recordings

\* a handler of the conversation, the recorder's or the player's events
Commit(s) == CommitStore(s) /\ UNCHANGED << timingVars, streamingTTS, detectorVars >>

\* what a behaviour has spent of the bounds of the exploration
Spent(s) == s.presses + s.faults + s.recordings

(* ------------------------------ bags ---------------------------------- *)
EmptyBag == << >>
BagCard(b) ==
  LET RECURSIVE Sum(_)
      Sum(D) == IF D = {} THEN 0
                ELSE LET e == CHOOSE x \in D : TRUE IN b[e] + Sum(D \ {e})
  IN Sum(DOMAIN b)
BagAdd(b, e) == IF e \in DOMAIN b THEN [b EXCEPT ![e] = @ + 1] ELSE b @@ (e :> 1)
BagRemove(b, e) ==
  IF b[e] > 1 THEN [b EXCEPT ![e] = @ - 1]
  ELSE IF DOMAIN b = {e} THEN EmptyBag
  ELSE [x \in (DOMAIN b) \ {e} |-> b[x]]

(* ----------------------------- closures ------------------------------- *)
\* What a closure of one render captured of the React state it reads:
\*   rec    - isRecording (read by startRecording, stopConversation, ...)
\*   play   - naturalTTS.isSpeaking = audioManager.isPlaying
\*   shared - the sharedStream state is the stream sharedStreamRef now holds
\* React commits the render a state update asks for before the next task (timer,
\* event, network callback) runs: a closure made in a task holds the state as
\* it was when the task began
Rendered(s) == [rec |-> s.isRecording, play |-> s.isPlaying,
                shared |-> s.sharedStreamRef # "null"]

\* window.setTimeout(() => { if (<guard k>) startRecording() }, delay)
AddTimer(s, k, snap) ==
  IF BagCard(s.timers) >= MaxTimers
  THEN [s EXCEPT !.overflow = TRUE]
  ELSE [s EXCEPT !.timers = BagAdd(@, [k |-> k, snap |-> snap, stale |-> FALSE])]

(* ---------------- useContinuousVoiceConversation, part 1 -------------- *)
transitionTo(s, newState) ==
  IF s.state = newState
  THEN IF s.transTimer # "none" THEN [s EXCEPT !.lastReq = newState] ELSE s
  ELSE [s EXCEPT !.pendingState = newState, !.transTimer = newState,
                 !.lastReq = newState]

\* the callback of the debounce timer
transitionCommit(s) ==
  LET s1 == IF s.pendingState = s.transTimer /\ s.sessionActive
            THEN [s EXCEPT !.state = s.transTimer, !.pendingState = "none"]
            ELSE s
  IN [s1 EXCEPT !.transTimer = "none", !.lastReq = "none"]

endConversationWithTimeout(s) ==
  IF ~s.sessionActive THEN s
  ELSE LET s1 == transitionTo([s EXCEPT !.convTimer = FALSE], "idle")
       IN [s1 EXCEPT !.sessionActive = FALSE, !.convStart = FALSE,
                     !.speechConv = FALSE, !.endedBy = "timeout"]

\* naturalTTS options: onSpeechStart, onSpeechEnd, onError
onSpeechStart(s) ==
  IF ~s.ttsCanceled
  THEN [s EXCEPT !.state = "speaking", !.ttsSpeaking = TRUE, !.afterPlayback = -1]
  ELSE s

\* onSpeechEnd without the new conversation timeout
onSpeechEndNoTimeout(s, play) ==
  LET s1 == IF ~s.ttsCanceled
            THEN LET a == [s EXCEPT !.ttsSpeaking = FALSE, !.speechConv = FALSE,
                                    !.heardSinceArm = FALSE]
                 IN IF a.sessionActive
                    THEN AddTimer([a EXCEPT !.state = "listening", !.afterPlayback = 0],
                                  "ttsEnd", [NoSnap EXCEPT !.play = play])
                    ELSE transitionTo(a, "idle")
            ELSE s
  IN [s1 EXCEPT !.ttsCanceled = FALSE]

onSpeechEnd(s, play) ==
  LET s1 == IF ~s.ttsCanceled
            THEN LET a == [s EXCEPT !.ttsSpeaking = FALSE, !.speechConv = FALSE,
                                    !.convStart = TRUE, !.convTimer = TRUE,
                                    !.heardSinceArm = FALSE]
                 IN IF a.sessionActive
                    THEN AddTimer([a EXCEPT !.state = "listening", !.afterPlayback = 0],
                                  "ttsEnd", [NoSnap EXCEPT !.play = play])
                    ELSE transitionTo(a, "idle")
            ELSE s
  IN [s1 EXCEPT !.ttsCanceled = FALSE]

ttsOnError(s) ==
  LET s1 == [s EXCEPT !.ttsSpeaking = FALSE]
  IN IF s1.sessionActive
     THEN AddTimer([s1 EXCEPT !.state = "listening"], "ttsErr", NoSnap)
     ELSE s1

(* ----------------------- useAudioPlaybackManager ---------------------- *)
\* jobs[j].pc:
\*   free     no play() call uses the slot
\*   wait1    useNaturalTTS.speak polls for the previous playback to stop
\*   wait2    play() polls for the previous playback to stop
\*   sleep    play() sleeps 100 ms after the forced stop (browser TTS)
\*   fetch    POST /api/tts in flight
\*   pending  audio.play() / speechSynthesis.speak() called, not started
\*   playing  the source is audible
\*   aborted  html audio paused while play() was pending: rejection queued
\*   stopped  html audio paused by stop(): handlers removed, 60 s timer armed
\*   canceled utterance cancelled: its end / error event is queued
Slots == 1..MaxJobs

\* document.querySelectorAll("audio") finds no element made by new Audio();
\* window.speechSynthesis.cancel() cancels every utterance
stopAllGlobalAudio(s) ==
  [s EXCEPT !.jobs = [j \in Slots |->
     IF s.jobs[j].kind = "synth" /\ s.jobs[j].pc \in {"pending", "playing"}
     THEN [s.jobs[j] EXCEPT !.pc = "canceled"]
     ELSE s.jobs[j]]]

stop(s) ==
  LET s1 == stopAllGlobalAudio(s)
      c == s1.currentAudioRef
  IN IF c = 0
     THEN [s1 EXCEPT !.isPlaying = FALSE]
     ELSE [s1 EXCEPT !.jobs[c].pc = IF @ = "pending" /\ s1.jobs[c].kind = "html"
                                    THEN "aborted"
                                    ELSE IF @ = "playing" /\ s1.jobs[c].kind = "html"
                                         THEN "stopped" ELSE @,
                     !.currentAudioRef = 0,
                     !.isPlaying = FALSE]

\* the catch block of play()
playCatch(s, j) ==
  [ttsOnError(s) EXCEPT !.isPlaying = FALSE, !.currentAudioRef = 0,
                        !.jobs[j] = FreeJob]

playAudioBlob(s, j) ==
  LET s1 == stop(stopAllGlobalAudio(s))
  IN [s1 EXCEPT !.jobs[j].pc = "pending", !.currentAudioRef = j]

playBrowserTTS(s, j) ==
  LET s1 == stop(stopAllGlobalAudio(s))
  IN [s1 EXCEPT !.jobs[j].pc = "pending", !.currentAudioRef = j]

\* play() from its first line to its first await
playEnter(s, j) ==
  LET s1 == stop(stopAllGlobalAudio(s))
  IN IF s1.jobs[j].snap
     THEN [s1 EXCEPT !.jobs[j].pc = "wait2"]
     ELSE IF s1.jobs[j].kind = "html"
          THEN [s1 EXCEPT !.jobs[j].pc = "fetch"]
          ELSE playBrowserTTS(s1, j)

\* useNaturalTTS.speak from its first line to its first await
speak(s, kind) ==
  LET free == {j \in Slots : s.jobs[j].pc = "free"}
  IN IF free = {}
     THEN [s EXCEPT !.overflow = TRUE]
     ELSE LET j == CHOOSE x \in free : \A y \in free : x <= y
              s0 == [s EXCEPT !.jobs[j] = [pc |-> "wait1", kind |-> kind,
                                           snap |-> s.isPlaying, pre |-> FALSE]]
          IN IF s.isPlaying THEN stop(s0) ELSE playEnter(s0, j)

\* useNaturalTTS.cancel; the jobs alive at the call are marked
cancel(s) ==
  LET s1 == stop(s)
  IN [s1 EXCEPT !.jobs = [j \in Slots |->
        IF s1.jobs[j].pc = "free" THEN s1.jobs[j]
        ELSE [s1.jobs[j] EXCEPT !.pre = TRUE]]]

(* --------------------------- useAudioRecorder ------------------------- *)
\* recs[i].pc: free, recording, stopping (stop() called or tracks ended: the
\* stop event is queued)
RecSlots == 1..MaxRecs

\* track.stop() on every track of the shared stream: a MediaRecorder on it stops
killShared(s) ==
  [s EXCEPT !.sharedStreamRef = IF @ = "null" THEN "null" ELSE "dead",
            !.recs = [i \in RecSlots |->
               IF s.recs[i].pc = "recording" /\ ~s.recs[i].own
               THEN [s.recs[i] EXCEPT !.pc = "stopping"]
               ELSE s.recs[i]]]

\* if (streamRef.current && !isSharedStreamRef.current) { stop its tracks }
\* streamRef.current = null
recReleaseStream(s) ==
  LET s1 == IF s.streamRef = "shared" /\ ~s.isSharedStreamRef THEN killShared(s) ELSE s
  IN [s1 EXCEPT !.streamRef = "null"]

stopRecording(s) ==
  IF s.mediaRecorderRef = 0 \/ ~s.isRecordingRef
  THEN s
  ELSE [s EXCEPT !.isRecordingRef = FALSE, !.bargeIn = -1, !.afterPlayback = -1,
                 !.recs = [i \in RecSlots |->
                    IF i = s.mediaRecorderRef /\ s.recs[i].pc = "recording"
                    THEN [s.recs[i] EXCEPT !.pc = "stopping"] ELSE s.recs[i]],
                 !.isRecording = FALSE]

\* the recorder's onError option: useContinuousVoiceConversation lines 350-355
recorderOnError(s) ==
  transitionTo([s EXCEPT !.onErrorCalled = TRUE, !.failure = "recording"], "idle")

\* the catch block of useAudioRecorder.startRecording
recCatch(s) ==
  recorderOnError(recReleaseStream([s EXCEPT !.isRecording = FALSE]))

\* mediaRecorderRef.current = mediaRecorder, and mediaRecorder.start()
setMediaRecorder(s, snap, own) ==
  LET free == {i \in RecSlots : s.recs[i].pc = "free"}
  IN IF free = {}
     THEN [s EXCEPT !.overflow = TRUE]
     ELSE LET i == CHOOSE x \in free : \A y \in free : x <= y
          IN [s EXCEPT !.recs[i] = [pc |-> "recording", snap |-> snap, own |-> own],
                       !.mediaRecorderRef = i]

\* startRecording from "streamRef.current = stream" on; out is what the
\* browser does: "ok", "early" (the MediaRecorder constructor throws twice, or
\* the stream has no enabled live audio track) or "late" (start() throws or
\* leaves the recorder inactive)
recWithStream(s, snap, own, out) ==
  LET s1 == [s EXCEPT !.streamRef = IF own THEN "own" ELSE "shared"]
  IN IF out = "early"
     THEN recCatch(IF own THEN s1 ELSE killShared(s1))
     ELSE IF out = "late"
          THEN LET s2 == [s1 EXCEPT !.mediaRecorderRef = -1]
               IN recCatch(IF own THEN s2 ELSE killShared(s2))
          ELSE [setMediaRecorder(s1, snap, own)
                  EXCEPT !.isRecording = TRUE, !.isRecordingRef = TRUE,
                         !.speechDetectedRef = FALSE,
                         !.bargeIn = IF @ >= 0 THEN @ + 1 ELSE @,
                         !.afterPlayback = IF @ >= 0 THEN @ + 1 ELSE @]

\* startRecording from its first line to its first await (getUserMedia), or
\* to its end when the shared stream is used
recStartRecording(s, snap, out) ==
  LET s1 == [s EXCEPT !.hasChunks = FALSE, !.speechDetectedRef = FALSE,
                      !.stoppedByMaxTimeRef = FALSE,
                      !.recordings = @ + 1,
                      !.overflow = @ \/ s.recordings >= MaxRecordings
                                     \/ Spent(s) >= MaxEvents]
  IN IF snap.shared /\ s.sharedStreamRef = "live"
     THEN recWithStream([s1 EXCEPT !.isSharedStreamRef = TRUE], snap, FALSE, out)
     ELSE IF BagCard(s.acq) >= MaxTrans
          THEN [s1 EXCEPT !.overflow = TRUE]
          ELSE [s1 EXCEPT !.isSharedStreamRef = FALSE, !.acq = BagAdd(@, snap)]

(* ---------------- useContinuousVoiceConversation, part 2 -------------- *)
cancelTTSImmediate(s) ==
  cancel([s EXCEPT !.ttsCanceled = TRUE, !.ttsSpeaking = FALSE])

endConversationWithStop(s, snap) ==
  IF ~s.sessionActive THEN s
  ELSE LET s1 == transitionTo([s EXCEPT !.convTimer = FALSE, !.lastTx.bye = TRUE],
                              "idle")
           s2 == [s1 EXCEPT !.sessionActive = FALSE, !.convStart = FALSE,
                            !.speechConv = FALSE, !.endedBy = "phrase"]
           s3 == IF snap.rec THEN stopRecording(s2) ELSE s2
       IN cancelTTSImmediate(s3)

StreamSlots == 1..MaxStreams

\* streamChatResponse from its first line to the fetch
streamChatResponse(s) ==
  IF ~s.sessionActive THEN s
  ELSE LET s1 == IF s.abortRef # 0
                 THEN [s EXCEPT !.streams[s.abortRef].aborted = TRUE] ELSE s
           free == {i \in StreamSlots : s1.streams[i].pc = "free"}
       IN IF free = {}
          THEN [s EXCEPT !.overflow = TRUE]
          ELSE LET i == CHOOSE x \in free : \A y \in free : x <= y
               IN [s1 EXCEPT !.ttsCanceled = FALSE,
                             !.streams[i] = [FreeStream EXCEPT !.pc = "fetch"],
                             !.abortRef = i,
                             !.lastTx.fwd = TRUE]

\* a transcript that is, as it stands, one of the configured stop phrases
ExactStopPhrase(transcript) == transcript \in STOP_KEYWORDS

onTranscriptionCompleteForward(s, snap, transcript) ==
  IF ~s.sessionActive THEN s
  ELSE LET s0 == [s EXCEPT !.lastTx = [exact |-> ExactStopPhrase(transcript),
                                       fwd |-> FALSE, bye |-> FALSE, ended |-> FALSE]]
           s1 == streamChatResponse(s0)
       IN [s1 EXCEPT !.lastTx.ended = ~s1.sessionActive]

onTranscriptionComplete(s, snap, transcript) ==
  IF ~s.sessionActive THEN s
  ELSE LET s0 == [s EXCEPT !.lastTx = [exact |-> ExactStopPhrase(transcript),
                                       fwd |-> FALSE, bye |-> FALSE, ended |-> FALSE]]
           s1 == IF containsStopKeyword(transcript)
                 THEN endConversationWithStop(s0, snap)
                 ELSE streamChatResponse(s0)
       IN [s1 EXCEPT !.lastTx.ended = ~s1.sessionActive]

\* useWhisperTranscription options.onError; over: 30 s have passed since
\* conversationStartTimeRef
whisperOnError(s, snap, over) ==
  IF s.sessionActive
  THEN LET s1 == [s EXCEPT !.state = "listening"]
       IN IF s1.convStart /\ ~s1.speechConv /\ over
          THEN endConversationWithTimeout(s1)
          ELSE AddTimer(s1, "conv", snap)
  ELSE transitionTo(s, "idle")

\* the catch block of onRecordingComplete; kind "empty": the message has
\* "Empty transcription" or "Failed to transcribe", kind "http": any other
transcribeCatch(s, snap, kind) ==
  IF s.sessionActive
  THEN AddTimer([s EXCEPT !.state = "listening"], "conv", snap)
  ELSE IF kind = "empty" THEN s ELSE transitionTo(s, "idle")

\* onRecordingComplete from its first line to "await transcribeAudio"
onRecordingComplete(s, snap, hasSpeech, over) ==
  IF ~s.sessionActive THEN s
  ELSE LET s1 == stopRecording(s)
       IN IF ~hasSpeech
          THEN IF s1.convStart /\ ~s1.speechConv /\ over
               THEN endConversationWithTimeout(s1)
               ELSE AddTimer([s1 EXCEPT !.state = "listening"], "conv", snap)
          ELSE IF BagCard(s1.trans) >= MaxTrans
               THEN [s EXCEPT !.overflow = TRUE]
               ELSE [s1 EXCEPT !.speechConv = TRUE, !.convTimer = FALSE,
                               !.state = "processing", !.trans = BagAdd(@, snap)]

\* onstop that hands every recording to onRecordingComplete
recOnStopAlways(s, i, over) ==
  LET snap == s.recs[i].snap
      s0 == [s EXCEPT !.recs[i] = FreeRec,
                      !.mediaRecorderRef = IF @ = i THEN -1 ELSE @]
      s1 == onRecordingComplete(s0, snap, s0.speechDetectedRef, over)
  IN recReleaseStream([s1 EXCEPT !.speechDetectedRef = FALSE,
                                 !.stoppedByMaxTimeRef = FALSE,
                                 !.completed = TRUE])

\* mediaRecorder.onstop of recorder i
recOnStop(s, i, over) ==
  LET snap == s.recs[i].snap
      s0 == [s EXCEPT !.recs[i] = FreeRec,
                      !.mediaRecorderRef = IF @ = i THEN -1 ELSE @,
                      !.bargeIn = -1, !.afterPlayback = -1]
  IN IF ~s0.hasChunks
     THEN recReleaseStream([recorderOnError(s0) EXCEPT !.failure = "noData"])
     ELSE LET s1 == onRecordingComplete(s0, snap, s0.speechDetectedRef, over)
          IN recReleaseStream([s1 EXCEPT !.speechDetectedRef = FALSE,
                                         !.stoppedByMaxTimeRef = FALSE,
                                         !.completed = TRUE])

\* mediaRecorder.onerror of recorder i; the browser then stops the recorder
recOnErrorEvent(s, i) ==
  LET s1 == recReleaseStream([s EXCEPT !.isRecording = FALSE,
                                       !.recs[i].pc = "stopping",
                                       !.bargeIn = -1, !.afterPlayback = -1])
  IN recorderOnError(s1)

\* the conversation's startRecording up to the end of the synchronous part of
\* startMainRecording.  sessionActive implies sharedStreamRef # "null"
\* (ActiveHasStream), so the getUserMedia branch of lines 400-424 is never taken.
startRecording(s, snap, out) ==
  IF snap.rec THEN s
  ELSE IF s.state = "processing" THEN s
  ELSE IF ~s.ttsExplicit /\ (s.ttsSpeaking \/ snap.play) THEN s
  ELSE LET s1 == [s EXCEPT !.ttsExplicit = FALSE]
           s2 == IF s1.state = "speaking" /\ ~s1.ttsSpeaking /\ ~snap.play
                 THEN [s1 EXCEPT !.state = "listening"] ELSE s1
       IN IF s2.state = "speaking" /\ (s2.ttsSpeaking \/ snap.play)
          THEN s2
          ELSE IF s2.sharedStreamRef = "null"
               THEN [s2 EXCEPT !.overflow = TRUE]
               ELSE recStartRecording([s2 EXCEPT !.state = "listening"], snap, out)

stopSpeakingAndListen(s) ==
  LET snap == Rendered(s)
      s1 == cancelTTSImmediate([s EXCEPT !.ttsExplicit = TRUE])
      s2 == IF snap.rec THEN stopRecording(s1) ELSE s1
  IN IF s2.sessionActive
     THEN AddTimer([s2 EXCEPT !.state = "listening",
                              !.bargeIn = IF s.state = "speaking" THEN 0 ELSE -1],
                   "conv", snap)
     ELSE s2

\* a closure that captured the released stream now holds a stream that is
\* not active: it behaves as one that captured null
BagMapShared(b) ==
  LET Img(e) == [e EXCEPT !.shared = FALSE]
      D == {Img(e) : e \in DOMAIN b}
      RECURSIVE Sum(_, _)
      Sum(S, d) == IF S = {} THEN 0
                   ELSE LET e == CHOOSE x \in S : TRUE
                        IN (IF Img(e) = d THEN b[e] ELSE 0) + Sum(S \ {e}, d)
  IN IF D = {} THEN EmptyBag ELSE [d \in D |-> Sum(DOMAIN b, d)]

TimersAtStop(b) ==
  LET Img(e) == [e EXCEPT !.snap.shared = FALSE, !.stale = TRUE]
      D == {Img(e) : e \in DOMAIN b}
      RECURSIVE Sum(_, _)
      Sum(S, d) == IF S = {} THEN 0
                   ELSE LET e == CHOOSE x \in S : TRUE
                        IN (IF Img(e) = d THEN b[e] ELSE 0) + Sum(S \ {e}, d)
  IN IF D = {} THEN EmptyBag ELSE [d \in D |-> Sum(DOMAIN b, d)]

releaseSharedStream(s) ==
  LET s1 == killShared(s)
  IN [s1 EXCEPT !.sharedStreamRef = "null",
                !.startSnap.shared = FALSE,
                !.trans = BagMapShared(@), !.acq = BagMapShared(@),
                !.recs = [i \in RecSlots |-> [s1.recs[i] EXCEPT !.snap.shared = FALSE]]]

stopConversation(s) ==
  LET snap == Rendered(s)
      s1 == transitionTo([s EXCEPT !.sessionActive = FALSE], "idle")
      s2 == [s1 EXCEPT !.convTimer = FALSE, !.convStart = FALSE, !.speechConv = FALSE]
      s3 == IF snap.rec THEN stopRecording(s2) ELSE s2
      s4 == cancelTTSImmediate(s3)
      s5 == [s4 EXCEPT !.transTimer = "none", !.lastReq = "none"]
      s6 == releaseSharedStream(s5)
  IN [s6 EXCEPT !.endedBy = "stop", !.timers = TimersAtStop(@)]

(* ------------------------------ actions ------------------------------- *)
\* the user calls the hook's API; the browser or the network fails
Press(s) ==
  [s EXCEPT !.presses = @ + 1,
            !.overflow = @ \/ s.presses >= MaxPresses \/ Spent(s) >= MaxEvents]
Fault(s) ==
  [s EXCEPT !.faults = @ + 1,
            !.overflow = @ \/ s.faults >= MaxFaults \/ Spent(s) >= MaxEvents]
FaultIf(c, s) == IF c THEN Fault(s) ELSE s

(* ------------------- SpeechDetector: the record of its state ----------- *)
\* getDefaultResult(); energy is in thousandths, confidence in 1/(100*Den)
getDefaultResult ==
  [ null |-> FALSE, isSpeech |-> FALSE, confidence |-> 0,
    features |-> [spectralCentroid |-> 0, spectralRolloff |-> 0, mfcc |-> << >>,
                  zcr |-> 0, energy |-> 0] ]

NullResult == [getDefaultResult EXCEPT !.null = TRUE]

InitSpeechDetector ==
  [ made |-> FALSE,            \* speechDetectorRef.current # null
    extractor |-> FALSE,       \* this.extractor # null
    frameCount |-> 0,          \* modulo frameSkip
    lastResult |-> NullResult,
    result |-> NullResult,     \* what detectSpeech returned last
    returned |-> "none" ]      \* the return statement the last call left by

\* the start of a recording (useAudioRecorder.startRecording): the noise
\* floor is 0, no frame has been looked at.  Levels are those of
\* getByteFrequencyData (0..255), the threshold is in tenths of a level.
InitSilenceCheck ==
  [ frame |-> FALSE,            \* checkSilence has run
    withExtractor |-> FALSE,    \* the detector had its extractor in that frame
    average |-> 0, threshold |-> 0,
    backgroundNoise |-> 0,      \* backgroundNoiseLevelRef
    isActualSpeech |-> FALSE,
    speechDetected |-> FALSE ]  \* speechDetectedRef

(* --------------- useStreamingTTS: the record of its state --------------- *)
CallSlots == 1..MaxSpeaks
ChunkIds == 1..MaxChunks

\* a speakStreaming call: where it awaits, whether its controller was aborted,
\* its local hasStartedPlaying, and the isStreaming its playNextAudio closed over
FreeCall == [pc |-> "free", aborted |-> FALSE, hasStartedPlaying |-> FALSE, snap |-> FALSE]

\* an Audio element made of a chunk, and its events that have not been delivered
NoAudio == [pc |-> "none", snap |-> FALSE, errPending |-> FALSE, catchPending |-> FALSE]

\* what held when onSpeechEnd was called by the handler that ran last
NoSpeechEnd == [called |-> FALSE, queueEmpty |-> TRUE, idle |-> TRUE, sourceDone |-> TRUE]

InitStreamingTTS ==
  [ isStreaming |-> FALSE, isPlaying |-> FALSE,
    abortControllerRef |-> 0,       \* index into calls, 0 = null
    audioQueueRef |-> << >>,        \* chunks by their number of arrival
    currentAudioRef |-> 0,          \* index into audio, 0 = null
    isPlayingRef |-> FALSE,
    calls |-> [c \in CallSlots |-> FreeCall],
    audio |-> [a \in ChunkIds |-> NoAudio],
    speaks |-> 0,                   \* calls of speakStreaming so far
    arrived |-> 0,                  \* chunks read so far
    played |-> << >>,               \* chunks in the order their Audio was made
    speechEnd |-> NoSpeechEnd ]

\* the hooks after their first render
InitHooks ==
  /\ sessionActive = FALSE /\ state = "idle" /\ pendingState = "none"
  /\ transTimer = "none" /\ convTimer = FALSE /\ convStart = FALSE
  /\ speechConv = FALSE /\ ttsCanceled = FALSE /\ ttsExplicit = FALSE
  /\ ttsSpeaking = FALSE /\ sharedStreamRef = "null"
  /\ startPc = "idle" /\ startSnap = NoSnap /\ timers = EmptyBag
  /\ streams = [i \in StreamSlots |-> FreeStream] /\ abortRef = 0 /\ trans = EmptyBag
  /\ isRecording = FALSE /\ isRecordingRef = FALSE /\ mediaRecorderRef = 0
  /\ recs = [i \in RecSlots |-> FreeRec] /\ hasChunks = FALSE
  /\ speechDetectedRef = FALSE /\ stoppedByMaxTimeRef = FALSE
  /\ isSharedStreamRef = FALSE /\ streamRef = "null" /\ acq = EmptyBag
  /\ jobs = [j \in Slots |-> FreeJob] /\ currentAudioRef = 0 /\ isPlaying = FALSE
  /\ endedBy = "none" /\ lastReq = "none"
  /\ lastTx = [exact |-> FALSE, fwd |-> FALSE, bye |-> FALSE, ended |-> FALSE]
  /\ onErrorCalled = FALSE /\ failure = "none" /\ completed = FALSE
  /\ transFailed = "no"
  /\ heardSinceArm = FALSE /\ bargeIn = -1 /\ afterPlayback = -1
  /\ micSpeech = FALSE /\ elapsed = 0 /\ silence = 0 /\ detectDelay = -1
  /\ animationFrameRef = FALSE /\ analyserRef = FALSE
  /\ silenceTimerRef = NoTimer /\ maxTimeTimerRef = -1 /\ framed = FALSE
  /\ heardSpeech = FALSE /\ resumed = FALSE /\ armedDue = FALSE
  /\ stopCause = "none" /\ lastResult = NoResult
  /\ streamingTTS = InitStreamingTTS
  /\ speechDetector = InitSpeechDetector
  /\ silenceCheck = InitSilenceCheck
  /\ stopCheck = [transcript |-> << >>, verdict |-> "none"]

Init == InitHooks /\ presses = 0 /\ faults = 0 /\ recordings = 0

\* startConversation up to "await unlockAudioContext()"; the voice button of
\* App.tsx offers it while no session is active
StartConversation ==
  /\ ~sessionActive /\ startPc = "idle"
  /\ Commit([Press(Cur) EXCEPT !.convStart = TRUE, !.bargeIn = -1, !.afterPlayback = -1, !.speechConv = FALSE, !.convTimer = TRUE,
                        !.startPc = "await", !.startSnap = Rendered(Cur),
                        !.endedBy = "none", !.heardSinceArm = FALSE])

\* startConversation after its awaits; gumOk: getUserMedia resolves
StartConversationResume ==
  /\ startPc = "await"
  /\ \E gumOk \in BOOLEAN :
       LET s0 == [FaultIf(~gumOk, Cur) EXCEPT !.startPc = "idle", !.startSnap = NoSnap]
       IN IF sharedStreamRef = "null" /\ ~gumOk
          THEN Commit([s0 EXCEPT !.onErrorCalled = TRUE, !.failure = "microphone"])
          ELSE LET s1 == IF sharedStreamRef = "null"
                         THEN [s0 EXCEPT !.sharedStreamRef = "live"] ELSE s0
                   s2 == transitionTo([s1 EXCEPT !.sessionActive = TRUE,
                                                 !.endedBy = "none"], "listening")
               IN /\ (sharedStreamRef # "null" => gumOk)
                  /\ Commit(AddTimer(s2, "start", startSnap))

StopConversation ==
  /\ presses < MaxPresses /\ Spent(Cur) < MaxEvents
  /\ Commit(stopConversation(Press(Cur)))

\* the "stop speaking" button of App.tsx is shown while speaking
StopSpeaking ==
  /\ state = "speaking" \/ isPlaying
  /\ Commit(stopSpeakingAndListen(Press(Cur)))

TransitionTimerFire ==
  /\ transTimer # "none"
  /\ Commit(transitionCommit(Cur))

\* the callback of the conversation timeout armed by startConversation or
\* by onSpeechEnd
ConversationTimeoutFire ==
  /\ convTimer
  /\ LET s0 == [Cur EXCEPT !.convTimer = FALSE]
     IN Commit(IF sessionActive /\ ~speechConv
               THEN endConversationWithTimeout(s0) ELSE s0)

RecOutcomes == {"ok", "early", "late"}

\* the callback of a restart timer: "start" (startConversation), "conv"
\* (onRecordingComplete, transcription errors, stopSpeakingAndListen),
\* "ttsEnd" (onSpeechEnd), "ttsErr" (the TTS onError)
RestartTimerFire ==
  \E t \in DOMAIN timers : \E out \in RecOutcomes :
    LET s0 == [FaultIf(out # "ok", Cur) EXCEPT !.timers = BagRemove(@, t)]
        latest == t.k \in {"ttsEnd", "ttsErr"}     \* startRecordingRef.current()
        snap == IF latest THEN Rendered(s0) ELSE t.snap
        guard == /\ sessionActive
                 /\ (t.k # "start" => state = "listening")
                 /\ (t.k = "ttsEnd" => ~t.snap.play /\ ~ttsSpeaking)
        runs == /\ guard /\ ~snap.rec /\ state # "processing"
                /\ snap.shared /\ sharedStreamRef = "live"
    IN /\ (~runs => out = "ok")
       /\ Commit(IF guard THEN startRecording(s0, snap, out) ELSE s0)

\* the recorder's own getUserMedia resolves
RecGetUserMediaOK ==
  \E snap \in DOMAIN acq : \E out \in RecOutcomes :
    Commit(recWithStream([FaultIf(out # "ok", Cur) EXCEPT !.acq = BagRemove(@, snap)],
                         snap, TRUE, out))

RecGetUserMediaFail ==
  \E snap \in DOMAIN acq :
    Commit([recCatch([Fault(Cur) EXCEPT !.acq = BagRemove(@, snap)])
              EXCEPT !.failure = "microphone"])

\* mediaRecorder.ondataavailable with event.data.size > 0
RecDataAvailable ==
  /\ ~hasChunks
  /\ \E i \in RecSlots : recs[i].pc \in {"recording", "stopping"}
  /\ Commit([Cur EXCEPT !.hasChunks = TRUE])

Polling == isRecordingRef /\ mediaRecorderRef # 0

\* checkSilence classifies a frame as speech
RecSpeechFrame ==
  /\ Polling /\ (~speechDetectedRef \/ ~heardSinceArm)
  /\ Commit([Cur EXCEPT !.speechDetectedRef = TRUE, !.heardSinceArm = TRUE])

\* the silence-confirmation timer of checkSilence fires
RecSilenceStop ==
  /\ Polling /\ speechDetectedRef
  /\ Commit(stopRecording(Cur))

\* the max-time timer fires
RecMaxTime ==
  /\ Polling
  /\ Commit(stopRecording([Fault(Cur) EXCEPT !.stoppedByMaxTimeRef = TRUE]))

RecStopEvent ==
  \E i \in RecSlots : \E over \in BOOLEAN :
    /\ recs[i].pc = "stopping"
    /\ (over => sessionActive /\ hasChunks /\ ~speechDetectedRef
                /\ convStart /\ ~speechConv)
    /\ Commit(recOnStop(FaultIf(over, Cur), i, over))

RecErrorEvent ==
  \E i \in RecSlots :
    /\ recs[i].pc = "recording"
    /\ Commit(recOnErrorEvent(Fault(Cur), i))

\* POST /api/transcribe answers with a transcript
TranscribeOK ==
  \E snap \in DOMAIN trans : \E transcript \in Transcripts :
    Commit(onTranscriptionComplete([Cur EXCEPT !.trans = BagRemove(@, snap)],
                                   snap, transcript))

\* POST /api/transcribe fails, or answers with an empty transcript
TranscribeFail ==
  \E snap \in DOMAIN trans : \E kind \in {"empty", "http"} : \E over \in BOOLEAN :
    /\ (over => sessionActive /\ convStart /\ ~speechConv)
    /\ LET s0 == [Fault(Cur) EXCEPT !.trans = BagRemove(@, snap),
                                    !.transFailed = IF sessionActive THEN "active"
                                                                     ELSE "inactive"]
       IN Commit(transcribeCatch(whisperOnError(s0, snap, over), snap, kind))

\* ---- answer stream
streamFinally(s, i) ==
  [s EXCEPT !.streams[i] = FreeStream, !.abortRef = 0]

\* fetch rejects, the status is not ok, or the body is null
StreamFail ==
  \E i \in StreamSlots :
    /\ streams[i].pc \in {"fetch", "reading"} /\ ~streams[i].aborted
    /\ Commit(streamFinally(transitionTo([Fault(Cur) EXCEPT !.onErrorCalled = TRUE,
                                                             !.failure = "stream"],
                                          "idle"), i))

\* an "error" event in the stream: the throw of line 633 is inside the try of
\* line 602, whose catch ignores it, and the read loop goes on
StreamErrorEvent ==
  \E i \in StreamSlots :
    /\ streams[i].pc = "reading" /\ ~streams[i].aborted
    /\ Commit([Fault(Cur) EXCEPT !.failure = "streamEvent"])

\* the AbortError of an aborted stream
StreamAborted ==
  \E i \in StreamSlots :
    /\ streams[i].pc \in {"fetch", "reading"} /\ streams[i].aborted
    /\ Commit(streamFinally(Cur, i))

StreamFetchOK ==
  \E i \in StreamSlots :
    /\ streams[i].pc = "fetch" /\ ~streams[i].aborted
    /\ Commit([Cur EXCEPT !.streams[i].pc = "reading"])

StreamToken ==
  \E i \in StreamSlots :
    /\ streams[i].pc = "reading" /\ ~streams[i].aborted /\ ~streams[i].text
    /\ Commit([Cur EXCEPT !.streams[i].text = TRUE])

TtsKinds == {"html", "synth"}

\* the trigger without the ttsTriggered flag
maybeSpeakAgain(s, i, kind) ==
  IF s.streams[i].text /\ s.sessionActive /\ ~s.ttsCanceled
  THEN speak([s EXCEPT !.streams[i].trig = TRUE], kind)
  ELSE s

maybeSpeak(s, i, kind) ==
  IF s.streams[i].text /\ s.sessionActive /\ ~s.ttsCanceled /\ ~s.streams[i].trig
  THEN speak([s EXCEPT !.streams[i].trig = TRUE], kind)
  ELSE s

\* a "done" event; final: data.finalText is not empty
StreamDoneEvent ==
  \E i \in StreamSlots : \E final \in BOOLEAN : \E kind \in TtsKinds :
    /\ streams[i].pc = "reading" /\ ~streams[i].aborted
    /\ LET s0 == [Cur EXCEPT !.streams[i].text = @ \/ final]
           fires == s0.streams[i].text /\ sessionActive /\ ~ttsCanceled
                    /\ ~streams[i].trig
       IN /\ (~fires => kind = "html")
          /\ (streams[i].text => final)
          /\ Commit(maybeSpeak(s0, i, kind))

\* reader.read() reports done
StreamEnd ==
  \E i \in StreamSlots : \E kind \in TtsKinds :
    /\ streams[i].pc = "reading" /\ ~streams[i].aborted
    /\ LET fires == streams[i].text /\ sessionActive /\ ~ttsCanceled
                    /\ ~streams[i].trig
       IN /\ (~fires => kind = "html")
          /\ Commit(streamFinally(maybeSpeak(Cur, i, kind), i))

\* ---- player
SpeakWaitDone ==
  \E j \in Slots :
    /\ jobs[j].pc = "wait1"
    /\ Commit(playEnter(stop(Cur), j))

PlayWaitDone ==
  \E j \in Slots :
    /\ jobs[j].pc = "wait2"
    /\ LET s1 == stop(stopAllGlobalAudio(Cur))
       IN Commit([s1 EXCEPT !.jobs[j].pc = IF jobs[j].kind = "html"
                                           THEN "fetch" ELSE "sleep"])

PlaySleepDone ==
  \E j \in Slots :
    /\ jobs[j].pc = "sleep"
    /\ Commit(playBrowserTTS(Cur, j))

TtsFetchOK ==
  \E j \in Slots :
    /\ jobs[j].pc = "fetch"
    /\ Commit(playAudioBlob(Cur, j))

TtsFetchFail ==
  \E j \in Slots :
    /\ jobs[j].pc = "fetch"
    /\ Commit(playCatch(Fault(Cur), j))

\* audio.play() resolves
PlayResolved ==
  \E j \in Slots :
    /\ jobs[j].pc = "pending" /\ jobs[j].kind = "html"
    /\ Commit(onSpeechStart([Cur EXCEPT !.jobs[j].pc = "playing", !.isPlaying = TRUE]))

\* audio.play() rejects: not allowed, or interrupted by pause()
PlayRejected ==
  \E j \in Slots :
    /\ jobs[j].pc \in {"pending", "aborted"} /\ jobs[j].kind = "html"
    /\ Commit(playCatch(ttsOnError(FaultIf(jobs[j].pc = "pending", Cur)), j))

clearIfCurrent(s, j) ==
  IF s.currentAudioRef = j
  THEN [s EXCEPT !.currentAudioRef = 0, !.isPlaying = FALSE] ELSE s

\* audio.onended / utterance.onend
ended(s, j) ==
  LET s1 == IF s.currentAudioRef = j
            THEN onSpeechEnd(clearIfCurrent(s, j), s.jobs[j].snap) ELSE s
  IN [s1 EXCEPT !.jobs[j] = FreeJob]

\* audio.onerror / utterance.onerror, then the catch of play()
errored(s, j) == playCatch(ttsOnError(clearIfCurrent(s, j)), j)

AudioEnded ==
  \E j \in Slots :
    /\ jobs[j].pc = "playing" /\ jobs[j].kind = "html"
    /\ Commit(ended(Cur, j))

AudioError ==
  \E j \in Slots :
    /\ jobs[j].pc = "playing" /\ jobs[j].kind = "html"
    /\ Commit(errored(Fault(Cur), j))

\* the 60 s timer of playAudioBlob; stop() does not clear it
PlaybackTimeout ==
  \E j \in Slots :
    /\ jobs[j].pc \in {"playing", "stopped"} /\ jobs[j].kind = "html"
    /\ Commit(playCatch([clearIfCurrent(Fault(Cur), j) EXCEPT !.isPlaying = FALSE], j))

SynthStart ==
  \E j \in Slots :
    /\ jobs[j].pc = "pending" /\ jobs[j].kind = "synth"
    /\ Commit(onSpeechStart([Cur EXCEPT !.jobs[j].pc = "playing", !.isPlaying = TRUE]))

SynthEnd ==
  \E j \in Slots :
    /\ jobs[j].pc = "playing" /\ jobs[j].kind = "synth"
    /\ Commit(ended(Cur, j))

SynthError ==
  \E j \in Slots :
    /\ jobs[j].pc \in {"pending", "playing"} /\ jobs[j].kind = "synth"
    /\ Commit(errored(Fault(Cur), j))

\* the event of a cancelled utterance: "end", or "error" (interrupted)
SynthCanceled ==
  \E j \in Slots : \E asEnd \in BOOLEAN :
    /\ jobs[j].pc = "canceled"
    /\ Commit(IF asEnd THEN ended(Cur, j) ELSE errored(Cur, j))

PlayerStep ==
  \/ SpeakWaitDone \/ PlayWaitDone \/ PlaySleepDone
  \/ TtsFetchOK \/ TtsFetchFail \/ PlayResolved \/ PlayRejected
  \/ AudioEnded \/ AudioError \/ PlaybackTimeout
  \/ SynthStart \/ SynthEnd \/ SynthError \/ SynthCanceled

Next ==
  \/ StartConversation \/ StartConversationResume \/ StopConversation \/ StopSpeaking
  \/ TransitionTimerFire \/ ConversationTimeoutFire \/ RestartTimerFire
  \/ RecGetUserMediaOK \/ RecGetUserMediaFail
  \/ RecDataAvailable \/ RecSpeechFrame \/ RecSilenceStop \/ RecMaxTime
  \/ RecStopEvent \/ RecErrorEvent
  \/ TranscribeOK \/ TranscribeFail
  \/ StreamFail \/ StreamErrorEvent \/ StreamAborted \/ StreamFetchOK \/ StreamToken
  \/ StreamDoneEvent \/ StreamEnd
  \/ PlayerStep

Spec == Init /\ [][Next]_vars

\* ---- the conversation while nothing fails: no device and no request
\* fails, and one more press of the user is explored than in Spec
NoFailureInit == InitHooks /\ presses = -1 /\ faults = MaxFaults /\ recordings = 0

NoFailureNext ==
  \/ StartConversation \/ StartConversationResume \/ StopConversation \/ StopSpeaking
  \/ TransitionTimerFire \/ ConversationTimeoutFire \/ RestartTimerFire
  \/ RecGetUserMediaOK
  \/ RecDataAvailable \/ RecSpeechFrame \/ RecSilenceStop
  \/ RecStopEvent
  \/ TranscribeOK
  \/ StreamAborted \/ StreamFetchOK \/ StreamToken
  \/ StreamDoneEvent \/ StreamEnd
  \/ SpeakWaitDone \/ PlayWaitDone \/ PlaySleepDone
  \/ TtsFetchOK \/ PlayResolved \/ PlayRejected
  \/ AudioEnded \/ SynthStart \/ SynthEnd \/ SynthCanceled

NoFailureSpec == NoFailureInit /\ [][NoFailureNext]_vars

\* ---- the speech player alone, driven by a client of useNaturalTTS
ClientSpeak ==
  \E kind \in TtsKinds :
    /\ \E j \in Slots : jobs[j].pc = "free"
    /\ Commit(speak(Cur, kind))

\* a cancel() that changes nothing is a stuttering step
ClientCancel ==
  /\ \E j \in Slots : jobs[j].pc # "free"
  /\ Commit(cancel(Cur))

PlayerNext == ClientSpeak \/ ClientCancel \/ PlayerStep

PlayerSpec == Init /\ [][PlayerNext]_vars

(* ------------- useAudioRecorder: the clock of one recording ----------- *)
\* the refs of the silence detection as one record
CurT ==
  [ micSpeech |-> micSpeech, elapsed |-> elapsed, silence |-> silence,
    detectDelay |-> detectDelay, animationFrameRef |-> animationFrameRef,
    analyserRef |-> analyserRef, silenceTimerRef |-> silenceTimerRef,
    maxTimeTimerRef |-> maxTimeTimerRef, framed |-> framed,
    heardSpeech |-> heardSpeech, resumed |-> resumed, armedDue |-> armedDue,
    stopCause |-> stopCause, lastResult |-> lastResult ]

CommitT(t) ==
  /\ micSpeech' = t.micSpeech /\ elapsed' = t.elapsed /\ silence' = t.silence
  /\ detectDelay' = t.detectDelay /\ animationFrameRef' = t.animationFrameRef
  /\ analyserRef' = t.analyserRef /\ silenceTimerRef' = t.silenceTimerRef
  /\ maxTimeTimerRef' = t.maxTimeTimerRef /\ framed' = t.framed
  /\ heardSpeech' = t.heardSpeech /\ resumed' = t.resumed /\ armedDue' = t.armedDue
  /\ stopCause' = t.stopCause /\ lastResult' = t.lastResult
  /\ UNCHANGED << streamingTTS, detectorVars >>

\* a pair of the store and the clock
ST(s, t) == [s |-> s, t |-> t]
CommitST(p) == CommitStore(p.s) /\ CommitT(p.t)

\* startRecording from setIsRecording(true) on; analyser: the AudioContext and
\* the analyser could be made
startClock(t, analyser) ==
  LET t1 == [t EXCEPT !.elapsed = 0, !.silence = 0, !.heardSpeech = FALSE,
                      !.resumed = FALSE, !.armedDue = FALSE, !.stopCause = "none",
                      !.framed = FALSE, !.lastResult = NoResult]
  IN IF analyser
     THEN [t1 EXCEPT !.analyserRef = TRUE, !.detectDelay = DetectDelayTicks,
                     !.maxTimeTimerRef = MaxTicks]
     ELSE [t1 EXCEPT !.silenceTimerRef = [kind |-> "fallback", left |-> FallbackTicks]]

\* stopRecording with the timers and refs of the silence detection
stopRecordingT(p, cause) ==
  IF p.s.mediaRecorderRef = 0 \/ ~p.s.isRecordingRef
  THEN p
  ELSE ST(stopRecording(p.s),
          [p.t EXCEPT !.silenceTimerRef = NoTimer, !.maxTimeTimerRef = -1,
                      !.animationFrameRef = FALSE, !.analyserRef = FALSE,
                      !.stopCause = cause])

\* the auto-stop conditions of checkSilence, read from the clock
AutoStopDue(t) ==
  t.elapsed >= MinTicks /\ t.heardSpeech /\ t.silence >= SilenceTicks

\* checkSilence without the gate on speechDetectedRef
checkSilenceNoSpeechGate(p) ==
  LET s == p.s
      t == [p.t EXCEPT !.framed = TRUE]
  IN IF ~t.analyserRef \/ s.mediaRecorderRef = 0 \/ ~s.isRecordingRef
     THEN ST(s, [t EXCEPT !.animationFrameRef = FALSE])
     ELSE LET s1 == IF t.micSpeech
                    THEN [s EXCEPT !.speechDetectedRef = TRUE, !.heardSinceArm = TRUE]
                    ELSE s
              t1 == IF t.micSpeech
                    THEN [t EXCEPT !.silence = 0, !.heardSpeech = TRUE,
                                   !.silenceTimerRef = NoTimer]
                    ELSE t
          IN IF t1.elapsed < MinTicks THEN ST(s1, t1)
             ELSE IF t1.silence >= SilenceTicks
                  THEN ST(s1, [t1 EXCEPT !.silenceTimerRef =
                                            [kind |-> "confirm", left |-> ConfirmTicks],
                                         !.animationFrameRef = FALSE,
                                         !.resumed = FALSE,
                                         !.armedDue = AutoStopDue(t1)])
                  ELSE ST(s1, t1)

\* checkSilence that arms the confirmation timer one tick of silence early
checkSilenceEarly(p) ==
  LET s == p.s
      t == [p.t EXCEPT !.framed = TRUE]
  IN IF ~t.analyserRef \/ s.mediaRecorderRef = 0 \/ ~s.isRecordingRef
     THEN ST(s, [t EXCEPT !.animationFrameRef = FALSE])
     ELSE LET s1 == IF t.micSpeech
                    THEN [s EXCEPT !.speechDetectedRef = TRUE, !.heardSinceArm = TRUE]
                    ELSE s
              t1 == IF t.micSpeech
                    THEN [t EXCEPT !.silence = 0, !.heardSpeech = TRUE,
                                   !.silenceTimerRef = NoTimer]
                    ELSE t
          IN IF t1.elapsed < MinTicks THEN ST(s1, t1)
             ELSE IF ~s1.speechDetectedRef THEN ST(s1, t1)
             ELSE IF t1.silence >= SilenceTicks - 1
                  THEN ST(s1, [t1 EXCEPT !.silenceTimerRef =
                                            [kind |-> "confirm", left |-> ConfirmTicks],
                                         !.animationFrameRef = FALSE,
                                         !.resumed = FALSE,
                                         !.armedDue = AutoStopDue(t1)])
                  ELSE ST(s1, t1)

\* a confirmation timer whose callback does not stop the recording
silenceTimerFireIdle(p) == ST(p.s, [p.t EXCEPT !.silenceTimerRef = NoTimer])

\* one animation frame of checkSilence
checkSilence(p) ==
  LET s == p.s
      t == [p.t EXCEPT !.framed = TRUE]
  IN IF ~t.analyserRef \/ s.mediaRecorderRef = 0 \/ ~s.isRecordingRef
     THEN ST(s, [t EXCEPT !.animationFrameRef = FALSE])
     ELSE LET s1 == IF t.micSpeech
                    THEN [s EXCEPT !.speechDetectedRef = TRUE, !.heardSinceArm = TRUE]
                    ELSE s
              t1 == IF t.micSpeech
                    THEN [t EXCEPT !.silence = 0, !.heardSpeech = TRUE,
                                   !.silenceTimerRef = NoTimer]
                    ELSE t
          IN IF t1.elapsed < MinTicks THEN ST(s1, t1)
             ELSE IF ~s1.speechDetectedRef THEN ST(s1, t1)
             ELSE IF t1.silence >= SilenceTicks
                  THEN ST(s1, [t1 EXCEPT !.silenceTimerRef =
                                            [kind |-> "confirm", left |-> ConfirmTicks],
                                         !.animationFrameRef = FALSE,
                                         !.resumed = FALSE,
                                         !.armedDue = AutoStopDue(t1)])
                  ELSE ST(s1, t1)

\* the callback of the silence-confirmation timer
silenceTimerFire(p) ==
  LET p1 == ST(p.s, [p.t EXCEPT !.silenceTimerRef = NoTimer])
  IN IF p.s.mediaRecorderRef # 0 /\ p.s.isRecordingRef
     THEN stopRecordingT(p1, "silence")
     ELSE p1

\* the callback of the fallback timer armed when the analyser cannot be made
fallbackTimerFire(p) ==
  LET p1 == ST(p.s, [p.t EXCEPT !.silenceTimerRef = NoTimer])
  IN IF p.s.mediaRecorderRef # 0 /\ p.s.isRecordingRef
     THEN stopRecordingT(ST([p.s EXCEPT !.stoppedByMaxTimeRef = TRUE], p1.t), "fallback")
     ELSE p1

\* the callback of the max-time timer
maxTimerFire(p) ==
  LET p1 == ST(p.s, [p.t EXCEPT !.maxTimeTimerRef = -1])
  IN IF p.s.mediaRecorderRef # 0 /\ p.s.isRecordingRef
     THEN stopRecordingT(ST([p.s EXCEPT !.stoppedByMaxTimeRef = TRUE], p1.t), "maxTime")
     ELSE p1

\* nothing of an earlier recording is left
RecorderIdle ==
  /\ ~isRecordingRef /\ acq = EmptyBag /\ \A i \in RecSlots : recs[i].pc = "free"
  /\ detectDelay = -1 /\ silenceTimerRef = NoTimer /\ maxTimeTimerRef = -1
  /\ ~animationFrameRef

\* a client of the recorder, with no shared stream, calls startRecording
RecClientStart ==
  /\ RecorderIdle
  /\ recordings < MaxRecordings /\ Spent(Cur) < MaxEvents
  /\ Commit(recStartRecording(Cur, NoSnap, "ok"))

\* getUserMedia resolves and the recorder starts, or fails to
RecClockStart ==
  \E snap \in DOMAIN acq : \E out \in RecOutcomes : \E analyser \in BOOLEAN :
    /\ (out # "ok" => analyser)
    /\ LET s0 == [FaultIf(out # "ok" \/ ~analyser, Cur) EXCEPT !.acq = BagRemove(@, snap)]
       IN CommitST(ST(recWithStream(s0, snap, TRUE, out),
                      IF out = "ok" THEN startClock(CurT, analyser) ELSE CurT))

RecClientStop ==
  /\ Polling
  /\ CommitST(stopRecordingT(ST(Cur, CurT), "manual"))

\* the sound at the microphone changes between speech and no speech
MicChange ==
  /\ Polling
  /\ CommitT([CurT EXCEPT !.micSpeech = ~micSpeech,
                          !.resumed = @ \/ (~micSpeech /\ silenceTimerRef.kind = "confirm")])
  /\ UNCHANGED mainVars

\* 100 ms pass; timers fire when they are due, and a requested frame runs at
\* least once in 100 ms
Tick ==
  /\ isRecordingRef \/ detectDelay >= 0
  /\ detectDelay # 0 /\ maxTimeTimerRef # 0
  /\ silenceTimerRef.kind # "none" => silenceTimerRef.left > 0
  /\ animationFrameRef => framed
  /\ CommitT([CurT EXCEPT
       !.elapsed = IF @ > MaxTicks THEN @ ELSE @ + 1,
       !.silence = IF @ > SilenceTicks + ConfirmTicks THEN @ ELSE @ + 1,
       !.detectDelay = IF @ > 0 THEN @ - 1 ELSE @,
       !.maxTimeTimerRef = IF @ > 0 THEN @ - 1 ELSE @,
       !.silenceTimerRef = IF @.kind # "none" THEN [@ EXCEPT !.left = @ - 1] ELSE @,
       !.framed = FALSE])
  /\ UNCHANGED mainVars

\* the 300 ms timer requests the first frame
DetectDelayFire ==
  /\ detectDelay = 0
  /\ CommitT([CurT EXCEPT !.detectDelay = -1,
                          !.animationFrameRef = @ \/ isRecordingRef])
  /\ UNCHANGED mainVars

CheckSilenceFrame ==
  /\ animationFrameRef /\ ~framed
  /\ CommitST(checkSilence(ST(Cur, CurT)))

SilenceTimerFire ==
  /\ silenceTimerRef.kind = "confirm" /\ silenceTimerRef.left = 0
  /\ CommitST(silenceTimerFire(ST(Cur, CurT)))

FallbackTimerFire ==
  /\ silenceTimerRef.kind = "fallback" /\ silenceTimerRef.left = 0
  /\ CommitST(fallbackTimerFire(ST(Cur, CurT)))

MaxTimerFire ==
  /\ maxTimeTimerRef = 0
  /\ CommitST(maxTimerFire(ST(Cur, CurT)))

\* mediaRecorder.onstop, with what it passes to onRecordingComplete
RecClockStopEvent ==
  \E i \in RecSlots :
    /\ recs[i].pc = "stopping"
    /\ CommitST(ST(recOnStop(Cur, i, FALSE),
                   IF hasChunks
                   THEN [CurT EXCEPT !.lastResult =
                           [hasSpeech |-> speechDetectedRef, byMax |-> stoppedByMaxTimeRef,
                            cause |-> stopCause, heard |-> heardSpeech]]
                   ELSE CurT))

RecorderNext ==
  \/ RecClientStart \/ RecClockStart \/ RecGetUserMediaFail \/ RecClientStop
  \/ MicChange \/ Tick \/ DetectDelayFire \/ CheckSilenceFrame
  \/ SilenceTimerFire \/ FallbackTimerFire \/ MaxTimerFire
  \/ RecDataAvailable \/ RecErrorEvent \/ RecClockStopEvent

RecorderSpec == Init /\ [][RecorderNext]_vars


(* ------------------- useStreamingTTS: chunked playback ------------------ *)
CurTTS == [streamingTTS EXCEPT !.speechEnd = NoSpeechEnd]
CommitTTS(t) == streamingTTS' = t /\ UNCHANGED << mainVars, timingVars, detectorVars >>

\* audio elements that are playing or about to
Active(t) == {a \in ChunkIds : t.audio[a].pc \in {"starting", "playing"}}

\* speakStreaming calls that still fetch or read and were not aborted
Reading(t) == {c \in CallSlots : t.calls[c].pc # "free" /\ ~t.calls[c].aborted}

\* the caller's onSpeechEnd
streamOnSpeechEnd(t) ==
  [t EXCEPT !.speechEnd = [called |-> TRUE, queueEmpty |-> t.audioQueueRef = << >>,
                           idle |-> Active(t) = {}, sourceDone |-> Reading(t) = {}]]

\* playNextAudio of the render whose isStreaming was snap
playNextAudio(t, snap) ==
  IF t.isPlayingRef THEN t
  ELSE IF t.audioQueueRef = << >>
       THEN IF ~snap
            THEN streamOnSpeechEnd([t EXCEPT !.isPlayingRef = FALSE, !.isPlaying = FALSE])
            ELSE t
       ELSE LET a == Head(t.audioQueueRef)
            IN [t EXCEPT !.audioQueueRef = Tail(@),
                         !.audio[a] = [pc |-> "starting", snap |-> snap,
                                       errPending |-> FALSE, catchPending |-> FALSE],
                         !.isPlayingRef = TRUE, !.isPlaying = TRUE,
                         !.currentAudioRef = a, !.played = Append(@, a)]

\* currentAudioRef.current.pause(); a play() that is pending rejects
pauseCurrent(t) ==
  IF t.currentAudioRef = 0 THEN t
  ELSE [t EXCEPT !.audio[t.currentAudioRef] =
                    IF @.pc = "starting" THEN [@ EXCEPT !.pc = "paused", !.catchPending = TRUE]
                    ELSE IF @.pc = "playing" THEN [@ EXCEPT !.pc = "paused"]
                    ELSE @,
                 !.currentAudioRef = 0]

\* speakStreaming up to its fetch
speakStreaming(t) ==
  LET c == t.speaks + 1
      t1 == IF t.abortControllerRef # 0
            THEN [t EXCEPT !.calls[t.abortControllerRef].aborted = TRUE]
            ELSE t
  IN [pauseCurrent(t1) EXCEPT
        !.audioQueueRef = << >>, !.isPlayingRef = FALSE, !.isPlaying = FALSE,
        !.isStreaming = TRUE, !.abortControllerRef = c, !.speaks = c,
        !.calls[c] = [pc |-> "fetch", aborted |-> FALSE, hasStartedPlaying |-> FALSE,
                      snap |-> t.isStreaming]]

\* the catch and finally blocks of speakStreaming
streamCatch(t, c) ==
  [t EXCEPT !.isStreaming = FALSE, !.isPlaying = FALSE, !.isPlayingRef = FALSE,
            !.abortControllerRef = 0, !.calls[c] = FreeCall]

\* one turn of the read loop with a chunk
readChunk(t, c) ==
  LET a == t.arrived + 1
      t1 == [t EXCEPT !.arrived = a, !.audioQueueRef = Append(@, a)]
  IN IF ~t1.isPlayingRef /\ ~t1.calls[c].hasStartedPlaying
     THEN playNextAudio([t1 EXCEPT !.calls[c].hasStartedPlaying = TRUE], t1.calls[c].snap)
     ELSE t1

\* the read loop gets done, then the finally block
readDone(t, c) ==
  LET t1 == [t EXCEPT !.isStreaming = FALSE, !.abortControllerRef = 0,
                      !.calls[c] = FreeCall]
  IN IF t1.audioQueueRef = << >> /\ ~t1.isPlayingRef THEN streamOnSpeechEnd(t1) ELSE t1

\* cancel of useStreamingTTS
streamCancel(t) ==
  LET t1 == IF t.abortControllerRef # 0
            THEN [t EXCEPT !.calls[t.abortControllerRef].aborted = TRUE,
                           !.abortControllerRef = 0]
            ELSE t
  IN [pauseCurrent(t1) EXCEPT !.audioQueueRef = << >>, !.isPlayingRef = FALSE,
                              !.isPlaying = FALSE, !.isStreaming = FALSE]

\* audio.onended, audio.onerror and the catch of audio.play() after their own
\* bookkeeping
chunkOver(t, a) ==
  playNextAudio([t EXCEPT !.currentAudioRef = 0, !.isPlayingRef = FALSE,
                          !.isPlaying = FALSE], t.audio[a].snap)

\* the rejection of an aborted fetch or read is delivered before anything else
AbortPending == \E c \in CallSlots : streamingTTS.calls[c].pc # "free"
                                       /\ streamingTTS.calls[c].aborted

SpeakStreaming ==
  /\ streamingTTS.speaks < MaxSpeaks
  /\ CommitTTS(speakStreaming(CurTTS))

\* a cancel() that changes nothing is a stuttering step
CancelStreaming ==
  /\ \/ streamingTTS.abortControllerRef # 0 \/ streamingTTS.currentAudioRef # 0
     \/ streamingTTS.audioQueueRef # << >> \/ streamingTTS.isPlayingRef
     \/ streamingTTS.isStreaming
  /\ CommitTTS(streamCancel(CurTTS))

TtsStreamAborted ==
  \E c \in CallSlots :
    /\ streamingTTS.calls[c].pc # "free" /\ streamingTTS.calls[c].aborted
    /\ CommitTTS(streamCatch(CurTTS, c))

TtsStreamFetchOK ==
  \E c \in CallSlots :
    /\ ~AbortPending /\ streamingTTS.calls[c].pc = "fetch"
    /\ CommitTTS([CurTTS EXCEPT !.calls[c].pc = "reading"])

\* fetch rejects, the status is not ok, the body is null, or a read rejects
TtsStreamFail ==
  \E c \in CallSlots :
    /\ ~AbortPending /\ streamingTTS.calls[c].pc # "free"
    /\ CommitTTS(streamCatch(CurTTS, c))

ChunkArrives ==
  \E c \in CallSlots :
    /\ ~AbortPending /\ streamingTTS.calls[c].pc = "reading"
    /\ streamingTTS.arrived < MaxChunks
    /\ CommitTTS(readChunk(CurTTS, c))

ReadDone ==
  \E c \in CallSlots :
    /\ ~AbortPending /\ streamingTTS.calls[c].pc = "reading"
    /\ CommitTTS(readDone(CurTTS, c))

ChunkPlayResolved ==
  \E a \in ChunkIds :
    /\ ~AbortPending /\ streamingTTS.audio[a].pc = "starting"
    /\ CommitTTS([CurTTS EXCEPT !.audio[a].pc = "playing"])

\* play() is refused, or the chunk cannot be loaded: then the element also
\* gets an error event
ChunkPlayFails ==
  \E a \in ChunkIds : \E load \in BOOLEAN :
    /\ ~AbortPending /\ streamingTTS.audio[a].pc = "starting"
    /\ CommitTTS([CurTTS EXCEPT !.audio[a].pc = "failed",
                                !.audio[a].catchPending = TRUE,
                                !.audio[a].errPending = load])

ChunkOnError ==
  \E a \in ChunkIds :
    /\ ~AbortPending /\ streamingTTS.audio[a].errPending
    /\ CommitTTS(chunkOver([CurTTS EXCEPT !.audio[a].errPending = FALSE], a))

ChunkPlayCatch ==
  \E a \in ChunkIds :
    /\ ~AbortPending /\ streamingTTS.audio[a].catchPending
    /\ CommitTTS(chunkOver([CurTTS EXCEPT !.audio[a].catchPending = FALSE], a))

ChunkEnded ==
  \E a \in ChunkIds :
    /\ ~AbortPending /\ streamingTTS.audio[a].pc = "playing"
    /\ CommitTTS(chunkOver([CurTTS EXCEPT !.audio[a].pc = "over"], a))

StreamingNext ==
  \/ SpeakStreaming \/ CancelStreaming
  \/ TtsStreamAborted \/ TtsStreamFetchOK \/ TtsStreamFail
  \/ ChunkArrives \/ ReadDone
  \/ ChunkPlayResolved \/ ChunkPlayFails \/ ChunkOnError \/ ChunkPlayCatch
  \/ ChunkEnded

StreamingSpec == Init /\ [][StreamingNext]_vars

(* ---------------------------- SpeechDetector --------------------------- *)
Abs(x) == IF x < 0 THEN -x ELSE x
Min(a, b) == IF a < b THEN a ELSE b
Max(a, b) == IF a > b THEN a ELSE b

\* mfcc[k] || 0, with the index of the source (from 0)
Coef(mfcc, k) == IF k + 1 \in DOMAIN mfcc THEN mfcc[k + 1] ELSE 0

normalizeSpectralCentroid(centroid) ==
  IF centroid < 500 THEN 0
  ELSE IF centroid > 3000 THEN Den \div 2
  ELSE Max(0, Den - (Abs(centroid - 1500) * Den) \div 1500)

normalizeSpectralRolloff(rolloff) ==
  IF rolloff >= 2000 /\ rolloff <= 4000 THEN Den
  ELSE IF rolloff < 2000 THEN Max(0, (rolloff * Den) \div 2000)
  ELSE Max(0, Den - ((rolloff - 4000) * Den) \div 4000)

calculateMFCCScore(mfcc) ==
  IF Len(mfcc) = 0 THEN 0
  ELSE LET c0 == Abs(Coef(mfcc, 0))
           c1 == Abs(Coef(mfcc, 1))
           c2 == Abs(Coef(mfcc, 2))
           c3 == Abs(Coef(mfcc, 3))
           energyScore == Min(Den, (c0 * Den) \div 8)
           formantScore == Min(Den, ((c1 + c2 + c3) * Den) \div 25)
       IN Min(Den, (energyScore + formantScore) \div 2)

\* detectFormantsFromMFCC with the threshold 2.0 it had before
detectFormantsOld(mfcc) ==
  IF Len(mfcc) < 4 THEN 0
  ELSE LET sum == Abs(Coef(mfcc, 1)) + Abs(Coef(mfcc, 2)) + Abs(Coef(mfcc, 3))
       IN IF sum > 3 * 2 THEN Min(Den, (sum * Den) \div (3 * 4)) ELSE 0

\* formantMagnitude > 1.5 is 2 * (c1 + c2 + c3) > 9
detectFormantsFromMFCC(mfcc) ==
  IF Len(mfcc) < 4 THEN 0
  ELSE LET sum == Abs(Coef(mfcc, 1)) + Abs(Coef(mfcc, 2)) + Abs(Coef(mfcc, 3))
       IN IF 2 * sum > 9 THEN Min(Den, (sum * Den) \div 9) ELSE 0

\* a zero-crossing score that is 1 for every rate
normalizeZCRFlat(zcr) == Den

normalizeZCR(zcr) ==
  IF zcr >= 1000 /\ zcr <= 3000 THEN Den
  ELSE IF zcr < 1000 THEN Max(0, (zcr * Den) \div 1000)
  ELSE Max(0, Den - ((zcr - 3000) * Den) \div 3000)

\* an energy gate that is worth a whole score
energyScoreFull(energy) == IF energy > 10 THEN Den ELSE 0

\* (energy > 0.01 ? 0.1 : 0), the factor of weights.energy
energyScore(energy) == IF energy > 10 THEN Den \div 10 ELSE 0

\* the feature vectors extractor.get() hands to detectSpeech in this model
Fixture ==
  [ spectralCentroid |-> 1500, spectralRolloff |-> 3000,
    mfcc |-> <<10, 5, 5, 5, 0, 0, 0, 0, 0, 0, 0, 0, 0>>, zcr |-> 2000, energy |-> 50 ]

ZeroFeatures ==
  [ spectralCentroid |-> 0, spectralRolloff |-> 0,
    mfcc |-> <<0, 0, 0, 0, 0, 0, 0, 0, 0, 0, 0, 0, 0>>, zcr |-> 0, energy |-> 0 ]

Murmur ==
  [ spectralCentroid |-> 1000, spectralRolloff |-> 1000,
    mfcc |-> <<4, 2, 2, 1, 0, 0, 0, 0, 0, 0, 0, 0, 0>>, zcr |-> 500, energy |-> 11 ]

Mfccs ==
  {<<c0, c[1], c[2], c[3], 0, 0, 0, 0, 0, 0, 0, 0, 0>> :
      c0 \in {0, -4, 8, 10},
      c \in {<<0, 0, 0>>, <<1, 2, 1>>, <<2, 1, 2>>, <<2, 2, 2>>, <<5, 5, 5>>, <<-9, 9, 9>>}}
    \cup {<< >>, <<10, 5, 5>>}

FrameFeatures ==
  UNION {    {[b EXCEPT !.spectralCentroid = x] : x \in {0, 499, 500, 1000, 1500, 3000, 3001}}
        \cup {[b EXCEPT !.spectralRolloff = x] : x \in {0, 1000, 2000, 4000, 6000, 9000}}
        \cup {[b EXCEPT !.zcr = x] : x \in {0, 500, 1000, 3000, 4500, 7000}}
        \cup {[b EXCEPT !.energy = x] : x \in {0, 10, 11, 50}}
        \cup {[b EXCEPT !.mfcc = x] : x \in Mfccs}
        : b \in {Fixture, ZeroFeatures, Murmur}}

\* a frame skip that does not ask for an earlier decision
skipFrameAlways(d) == d.frameCount # 0

\* this.frameCount % this.frameSkip !== 0 && this.lastResult, after frameCount++
skipFrame(d) == d.frameCount # 0 /\ ~d.lastResult.null

\* detectSpeech; got: extractor.get() returned features
detectSpeech(d, got, features) ==
  LET d1 == [d EXCEPT !.frameCount = (@ + 1) % FrameSkip]
  IN IF skipFrame(d1)
     THEN [d1 EXCEPT !.result = d1.lastResult, !.returned = "cached"]
     ELSE IF ~d1.extractor
     THEN [d1 EXCEPT !.result = getDefaultResult, !.returned = "neutral"]
     ELSE IF ~got
     THEN [d1 EXCEPT !.result = IF d1.lastResult.null THEN getDefaultResult
                                                       ELSE d1.lastResult,
                     !.returned = "noFeatures"]
     ELSE LET centroidScore == normalizeSpectralCentroid(features.spectralCentroid)
              rolloffScore == normalizeSpectralRolloff(features.spectralRolloff)
              mfccScore == calculateMFCCScore(features.mfcc)
              zcrScore == normalizeZCR(features.zcr)
              formantScore == detectFormantsFromMFCC(features.mfcc)
              confidence == centroidScore * 15 + rolloffScore * 10 + mfccScore * 25
                            + formantScore * 30 + zcrScore * 10
                            + energyScore(features.energy) * 10
              r == [null |-> FALSE, isSpeech |-> 2 * confidence >= 100 * Den,
                    confidence |-> confidence, features |-> features]
          IN [d1 EXCEPT !.lastResult = r, !.result = r, !.returned = "computed"]

\* new SpeechDetector(...); ok: Meyda.createMeydaAnalyzer did not throw
NewSpeechDetector ==
  /\ \E ok \in BOOLEAN :
       speechDetector' = [InitSpeechDetector EXCEPT !.made = TRUE, !.extractor = ok]
  /\ UNCHANGED << mainVars, timingVars, streamingTTS, silenceCheck, stopCheck >>

DetectSpeech ==
  /\ speechDetector.made
  /\ \E got \in BOOLEAN : \E features \in FrameFeatures :
       /\ (~got => features = ZeroFeatures)
       /\ speechDetector' = detectSpeech(speechDetector, got, features)
  /\ UNCHANGED << mainVars, timingVars, streamingTTS, silenceCheck, stopCheck >>

Dispose ==
  /\ speechDetector.made /\ speechDetector.extractor
  /\ speechDetector' = [speechDetector EXCEPT !.extractor = FALSE, !.returned = "none"]
  /\ UNCHANGED << mainVars, timingVars, streamingTTS, silenceCheck, stopCheck >>

\* the sound levels of a frame and the part of the recording it falls in
Levels == {2, 4}

\* checkSilence from getByteFrequencyData to the end of the fallback branch;
\* early: elapsed < 0.5
checkSilenceSpeech(c, d, d1, average, early) ==
  LET byDetector == d.made /\ d1.result.isSpeech
      noiseMultiplier == Min(IF c.backgroundNoise = 0 THEN 2 ELSE c.backgroundNoise, 5)
      adaptiveThreshold == Max(30, noiseMultiplier * 12)
      byVolume == ~d.made /\ average * 10 > adaptiveThreshold
  IN [ frame |-> TRUE, withExtractor |-> d.extractor,
       average |-> average, threshold |-> adaptiveThreshold,
       backgroundNoise |->
         IF ~d.made /\ early /\ (c.backgroundNoise = 0 \/ average < c.backgroundNoise)
         THEN average ELSE c.backgroundNoise,
       isActualSpeech |-> byDetector \/ byVolume,
       speechDetected |-> c.speechDetected \/ byDetector \/ byVolume ]

\* a frame of the polling loop; the detector was made before the loop began
CheckSilence ==
  /\ speechDetector.made
  /\ \E got \in BOOLEAN : \E features \in {Fixture, ZeroFeatures, Murmur} :
     \E average \in Levels : \E early \in BOOLEAN :
       /\ (~got => features = ZeroFeatures)
       /\ speechDetector' = detectSpeech(speechDetector, got, features)
       /\ silenceCheck' = checkSilenceSpeech(silenceCheck, speechDetector,
                                             speechDetector', average, early)
  /\ UNCHANGED << mainVars, timingVars, streamingTTS, stopCheck >>

DetectorNext == NewSpeechDetector \/ DetectSpeech \/ Dispose \/ CheckSilence

DetectorSpec == Init /\ [][DetectorNext]_vars

(* -------- onTranscriptionComplete: the stop phrase in a transcript ------- *)
\* what the transcription service returns here: a stop phrase or another
\* utterance, with something before it and something after it
Utterances ==
  STOP_KEYWORDS \cup
  { <<"h","i">>, <<"b","e","n","d">>, <<"t","h","a","n","k">>,
    <<"S","T","O","P">>, <<"T","h","a","n","k"," ","Y","o","u">>,
    <<"n","o",","," ","m","o","r","e">>,
    <<"t","h","a","t","'","s",","," ","a","l","l">> }

Before == { << >>, <<" ">>, <<"i"," ">>, <<"x">>, <<"x","-">>, <<"x","_">>, <<"7">> }

After == { << >>, <<".">>, <<"!"," ">>, <<" ","x">>, <<"x">>, <<"-","x">>,
           <<"_">>, <<"'","s">> }

KeywordTranscripts == {b \o u \o a : b \in Before, u \in Utterances, a \in After}

\* onTranscriptionComplete in an active session, up to the branch it takes
HearTranscript ==
  /\ stopCheck.verdict = "none"
  /\ \E transcript \in KeywordTranscripts :
       stopCheck' = [transcript |-> transcript,
                     verdict |-> IF containsStopKeyword(transcript)
                                 THEN "endConversationWithStop"
                                 ELSE "streamChatResponse"]
  /\ UNCHANGED << mainVars, timingVars, streamingTTS, speechDetector, silenceCheck >>

KeywordNext == HearTranscript

KeywordSpec == Init /\ [][KeywordNext]_vars

(* ----------------------------- properties ----------------------------- *)
\* nothing is in flight: no timer armed, no request, recorder or audio alive
Quiescent ==
  /\ transTimer = "none" /\ ~convTimer /\ timers = EmptyBag /\ startPc = "idle"
  /\ trans = EmptyBag /\ acq = EmptyBag
  /\ \A i \in StreamSlots : streams[i].pc = "free"
  /\ \A i \in RecSlots : recs[i].pc = "free"
  /\ \A j \in Slots : jobs[j].pc = "free"

\* C1: once stopConversation() has been called and everything it left in
\* flight has run, the session is inactive and the state is idle
C1_StopSettlesIdle ==
  (endedBy = "stop" /\ Quiescent) => (~sessionActive /\ state = "idle")

\* C2: at every instant at most one MediaRecorder is recording
C2_OneRecording ==
  Cardinality({i \in RecSlots : recs[i].pc = "recording"}) <= 1

\* C3: at every instant at most one audio source is playing
C3_OnePlaying ==
  Cardinality({j \in Slots : jobs[j].pc = "playing"}) <= 1

\* C4: no audio of a speak() call issued before a cancel() plays after it
C4_CancelledStaysSilent ==
  \A j \in Slots : jobs[j].pc = "playing" => ~jobs[j].pre

\* C5: a transcript that is exactly a stop phrase ends the session with the
\* farewell message and is not passed to streamChatResponse
C5_StopPhraseEnds ==
  lastTx.exact => (lastTx.bye /\ lastTx.ended /\ ~lastTx.fwd)

C5_Witness ==
  lastTx.exact /\ lastTx.bye /\ ~sessionActive /\ endedBy = "phrase"

\* C6: once the conversation timeout has ended the session and everything in
\* flight has run, the state is idle
C6_TimeoutSettlesIdle ==
  (endedBy = "timeout" /\ Quiescent) => state = "idle"

\* C7: the tracks of the shared stream are stopped by the conversation
\* session only, never by the recorder
C7_SharedStreamLeftOpen == sharedStreamRef # "dead"

\* C8: no restart timer armed before stopConversation() is still armed after it
C8_TimersCleared == \A t \in DOMAIN timers : ~t.stale

\* C9: a debounce timer that changes the state commits the target of the
\* latest transitionTo call of its window
C9_LaterRequestCommits ==
  [][(transTimer # "none" /\ transTimer' = "none" /\ state' # state)
       => state' = lastReq]_vars

\* C10: while the session stays inactive the conversation state does not change
C10_InactiveKeepsState ==
  [][(~sessionActive /\ ~sessionActive') => state' = state]_vars

\* the recorder that mediaRecorderRef holds is recording
Capturing ==
  isRecordingRef /\ mediaRecorderRef > 0 /\ recs[mediaRecorderRef].pc = "recording"

C14_ResumeCancelsStop == stopCause = "silence" => ~resumed

\* the restart timers armed by the transcription handlers
ConvTimers(b) == {t \in DOMAIN b : t.k = "conv"}

\* C15: a transcription failure in an active session leaves the session
\* active, calls no onError, puts the state to listening and arms a restart of
\* the recording
C15_FailureRetries ==
  transFailed = "active"
    => (sessionActive /\ ~onErrorCalled /\ state = "listening"
        /\ ConvTimers(timers) # {})

\* C16: after a transcription failure that leaves the session active, the
\* conversation timeout is still able to end the session: no speech is
\* recorded as confirmed and the timer, or the elapsed-time check, is armed
C16_RetriesBounded ==
  (transFailed = "active" /\ sessionActive)
    => (~speechConv /\ (convTimer \/ convStart))

\* C17: the conversation timeout ends the session only if no frame was
\* classified as speech since the timeout was last armed
C17_TimeoutOnlyWithoutSpeech ==
  [][(sessionActive /\ ~sessionActive' /\ endedBy' = "timeout") => ~heardSinceArm]_vars

\* answer streams whose request has been neither answered to its end nor aborted
LiveStreams == {i \in StreamSlots : streams[i].pc # "free" /\ ~streams[i].aborted}

\* speak() calls whose POST /api/tts has not answered
LiveSynth == {j \in Slots : jobs[j].pc = "fetch"}

\* C18: at most one transcription request, one answer stream and one
\* synthesis request are in flight at a time
C18_OneInFlight ==
  /\ BagCard(trans) <= 1
  /\ Cardinality(LiveStreams) <= 1
  /\ Cardinality(LiveSynth) <= 1

\* C19: onSpeechEnd of the streaming player is called only when the queue is
\* empty, no chunk is playing and no speakStreaming call can still deliver
\* chunks
C19_SpeechEndWhenDrained ==
  streamingTTS.speechEnd.called
    => /\ streamingTTS.speechEnd.queueEmpty
       /\ streamingTTS.speechEnd.idle
       /\ streamingTTS.speechEnd.sourceDone

\* C20: chunks are played in the order of their arrival, and at most one
\* chunk is playing or about to play at a time
C20_FifoOneActive ==
  /\ \A i, j \in DOMAIN streamingTTS.played :
       i < j => streamingTTS.played[i] < streamingTTS.played[j]
  /\ Cardinality(Active(streamingTTS)) <= 1

\* where the state is, or is about to be once the debounce timer has fired
Settles(st) == IF transTimer = "none" THEN state = st ELSE transTimer = st

\* C21: after a recording error (no data, or the recorder's error event) in a
\* session that is active, the recording is off and the session is in, or on
\* its way to, listening
C21_RecordingErrorListens ==
  (failure \in {"recording", "noData"} /\ sessionActive) => (~isRecording /\ Settles("listening"))

\* C22: every failure of the answer stream, an error event in the stream
\* included, calls the caller's onError and puts the state to idle
C22_StreamFailureSurfaced ==
  failure \in {"stream", "streamEvent"} => (onErrorCalled /\ Settles("idle"))

\* C23: when getUserMedia fails in startConversation or in the recorder's
\* startRecording, the session is not active afterwards, nothing records and
\* the caller's onError has been called
C23_MicFailureAborts ==
  failure = "microphone"
    => (~sessionActive /\ ~isRecording /\ ~isRecordingRef /\ onErrorCalled)

\* C24: a recorder that stops with no chunk captured calls onError and does
\* not call onRecordingComplete; onRecordingComplete is called only with data.
\* (Chunks are kept only when their size is positive, lines 352-356, so the
\* blob of a recording with chunks is never empty.)
C24_EmptyRecordingIsError ==
  /\ failure = "noData" => (onErrorCalled /\ ~completed)
  /\ completed => (hasChunks /\ failure = "none")

C24_Witness == failure = "noData" /\ onErrorCalled /\ ~completed /\ ~hasChunks

\* C25: a feature vector whose centroid, rolloff, zero-crossing rate, energy
\* and cepstral coefficients are all 0 is classified isSpeech = false with
\* confidence 0
C25_ZeroVectorIsSilence ==
  LET r == speechDetector.lastResult
  IN (~r.null /\ r.features = ZeroFeatures) => (~r.isSpeech /\ r.confidence = 0)

C25_Witness ==
  /\ ~speechDetector.lastResult.null
  /\ speechDetector.lastResult.features = ZeroFeatures
  /\ speechDetector.result = speechDetector.lastResult

\* C26: the confidence of every analysed vector is .15 centroid + .10 rolloff
\* + .25 cepstral + .30 formant + .10 zero-crossing + .10 energy, with the
\* sub-scores the piecewise functions of the specification (the energy
\* sub-score is 0.1 when the energy is above 0.01, else 0); isSpeech is
\* confidence >= 0.5; the fixture is above 0.5.  Scores are in 1/Den and the
\* confidence in 1/(100 * Den).
C26_ConfidenceIsWeightedSum ==
  LET r == speechDetector.lastResult
      f == r.features
      a(k) == IF k \in DOMAIN f.mfcc THEN Abs(f.mfcc[k]) ELSE 0
      formants == a(2) + a(3) + a(4)
      centroid == IF f.spectralCentroid < 500 THEN 0
                  ELSE IF f.spectralCentroid <= 3000
                       THEN Max(0, Den - Abs(f.spectralCentroid - 1500) * 24)
                       ELSE 18000
      rolloff == IF f.spectralRolloff < 2000 THEN Max(0, f.spectralRolloff * 18)
                 ELSE IF f.spectralRolloff <= 4000 THEN Den
                      ELSE Max(0, Den - (f.spectralRolloff - 4000) * 9)
      cepstral == (Min(Den, a(1) * 4500) + Min(Den, formants * 1440)) \div 2
      formant == IF formants > 4 /\ Len(f.mfcc) >= 4 THEN Min(Den, formants * 4000) ELSE 0
      zcr == IF f.zcr < 1000 THEN Max(0, f.zcr * 36)
             ELSE IF f.zcr <= 3000 THEN Den
                  ELSE Max(0, Den - (f.zcr - 3000) * 12)
      energy == IF f.energy > 10 THEN 3600 ELSE 0
  IN ~r.null =>
       /\ r.confidence = 15 * centroid + 10 * rolloff + 25 * cepstral
                         + 30 * formant + 10 * zcr + 10 * energy
       /\ r.isSpeech <=> (r.confidence >= 50 * Den)
       /\ f = Fixture => r.confidence > 50 * Den

C26_Witness ==
  /\ ~speechDetector.lastResult.null
  /\ speechDetector.lastResult.features = Fixture
  /\ speechDetector.lastResult.isSpeech

\* the speak() calls that have not run to their end
Speaking(js) == {j \in Slots : js[j].pc # "free"}

\* C27: speak is called once at most for an answer stream, in the step of its
\* "done" event or of its end, and only with the session active, playback not
\* cancelled and a text that is not empty
C27_SpeakOncePerStream ==
  [][Cardinality(Speaking(jobs')) > Cardinality(Speaking(jobs)) =>
       /\ Cardinality(Speaking(jobs')) = Cardinality(Speaking(jobs)) + 1
       /\ sessionActive /\ ~ttsCanceled
       /\ \E i \in StreamSlots :
            /\ streams[i].pc = "reading" /\ ~streams[i].trig
            /\ streams'[i].pc = "free" \/ streams'[i].trig
            /\ streams[i].text \/ streams'[i].text]_vars

C27_Witness ==
  \E i \in StreamSlots :
    /\ streams[i].pc = "reading" /\ streams[i].trig /\ streams[i].text
    /\ Speaking(jobs) # {}

\* no timer is armed, no request is in flight and no recorder or player event
\* is due: nothing but a press of the user can happen
Quiet ==
  /\ timers = EmptyBag /\ transTimer = "none" /\ ~convTimer /\ startPc = "idle"
  /\ trans = EmptyBag /\ acq = EmptyBag
  /\ \A i \in StreamSlots : streams[i].pc = "free"
  /\ \A i \in RecSlots : recs[i].pc = "free"
  /\ \A j \in Slots : jobs[j].pc = "free"

\* C28: an active session does not get stuck: while it is active a recording
\* is running, or something is still due (a timer, a request, an event of the
\* recorder or the player) that can lead on
C28_NeverStuck == ~(sessionActive /\ Quiet)

\* sources that are audible or about to be
Audible(js) == {j \in Slots : js[j].pc \in {"pending", "playing"}}

\* the restart timers of kind k that are armed
Armed(b, k) == BagCard([t \in {x \in DOMAIN b : x.k = k} |-> b[t]])

\* C29: stopSpeakingAndListen while speaking in an active session silences
\* the player in the same step, sets the state to listening and arms one
\* settle timer without starting a recording itself; onSpeechEnd arms its
\* timer only for a playback that is current, playing and not cancelled; at
\* most one recording is started until that recording is stopped, and the
\* settle timer (or the recorder's start) stays due until it is started
C29_BargeInRestartsOnce ==
  [][/\ (bargeIn' = 0 /\ presses' # presses /\ sessionActive') =>
          /\ Audible(jobs') = {} /\ ~isPlaying' /\ currentAudioRef' = 0
          /\ ~ttsSpeaking' /\ state' = "listening"
          /\ BagCard(timers') = BagCard(timers) + 1
          /\ recordings' = recordings
     /\ Armed(timers', "ttsEnd") > Armed(timers, "ttsEnd") =>
          /\ ~ttsCanceled
          /\ currentAudioRef # 0 /\ jobs[currentAudioRef].pc = "playing"
     /\ bargeIn' <= 1
     /\ (bargeIn' = 1 /\ bargeIn = 0) => BagCard(timers') + BagCard(acq') < BagCard(timers) + BagCard(acq)
     /\ (bargeIn' = 0 /\ sessionActive') =>
          (timers' # EmptyBag \/ acq' # EmptyBag)]_vars

\* a session started by one press in which no device and no request has failed
Undisturbed == presses <= 1 /\ faults = 0

C31_NoRecordingWhilePlaying ==
  ~ /\ \E i \in RecSlots : recs[i].pc = "recording"
    /\ \E j \in Slots : jobs[j].pc = "playing"

\* C32: a restart timer armed in a session that stopConversation has ended
\* starts no recording when it fires after the conversation was started
\* again (the restart-timer case of: no response to a request of a stopped
\* session is acted upon in the next session)
C32_StaleTimerStartsNothing ==
  [][\A t \in DOMAIN timers :
       (t.stale /\ sessionActive /\ timers' = BagRemove(timers, t)) =>
          recordings' = recordings]_vars

\* C33: while the session is ended (by stopConversation, by the
\* conversation timeout or by a stop phrase) no recorder is recording and
\* the shared microphone stream is released
C33_EndedSessionHoldsNothing ==
  (~sessionActive /\ endedBy # "none") =>
     /\ \A i \in RecSlots : recs[i].pc # "recording"
     /\ sharedStreamRef = "null"

\* C34: a chunk that waits in the queue of the streaming player is going to
\* be played: an audio element is active or has a callback pending (its
\* end calls playNextAudio), or a read loop has not started playing yet
\* (its next chunk calls playNextAudio)
C34_QueuedChunkWillPlay ==
  streamingTTS.audioQueueRef # << >> =>
    \/ Active(streamingTTS) # {}
    \/ \E a \in ChunkIds : \/ streamingTTS.audio[a].errPending
                           \/ streamingTTS.audio[a].catchPending
    \/ \E c \in Reading(streamingTTS) : ~streamingTTS.calls[c].hasStartedPlaying

\* C35: in a frame looked at while the detector has no feature extractor,
\* a level above max(3, min(backgroundNoise, 5) * 1.2) is taken for speech
C35_FallbackHearsLoudInput ==
  (silenceCheck.frame /\ ~silenceCheck.withExtractor
     /\ silenceCheck.average * 10 > silenceCheck.threshold)
    => silenceCheck.isActualSpeech

\* C36: a decision computed from a vector whose list of cepstral
\* coefficients is empty or shorter than 4 is isSpeech = false with
\* confidence 0
C36_MalformedVectorIsSilence ==
  LET r == speechDetector.lastResult
  IN (~r.null /\ Len(r.features.mfcc) < 4) => (~r.isSpeech /\ r.confidence = 0)

\* C37: the confidence computed for a vector whose energy is above 0.01 is
\* 0.1 above the confidence a new detector computes for the same vector with
\* energy 0 (the confidence is in 1/(100 * Den), energy in thousandths)
C37_EnergyBonusIsTenth ==
  LET r == speechDetector.lastResult
      fresh == [InitSpeechDetector EXCEPT !.made = TRUE, !.extractor = TRUE]
      quiet == detectSpeech(fresh, TRUE, [r.features EXCEPT !.energy = 0]).result
  IN (~r.null /\ r.features.energy > 10) =>
       r.confidence = quiet.confidence + 10 * Den

\* C37 as the code has it: the confidence computed for a vector is that of
\* the same vector with energy 0 plus 0.01 (the gate's 0.1 times the weight
\* .10) when its energy is above 0.01, and equal to it otherwise
C37_EnergyBonusIsHundredth ==
  LET r == speechDetector.lastResult
      fresh == [InitSpeechDetector EXCEPT !.made = TRUE, !.extractor = TRUE]
      quiet == detectSpeech(fresh, TRUE, [r.features EXCEPT !.energy = 0]).result
  IN ~r.null =>
       r.confidence = quiet.confidence + (IF r.features.energy > 10 THEN Den ELSE 0)

C37_Witness ==
  /\ ~speechDetector.lastResult.null
  /\ speechDetector.lastResult.features.energy = 11
  /\ speechDetector.lastResult.features.spectralCentroid = 1500
  /\ speechDetector.lastResult.confidence > Den

\* C38: a call of detectSpeech that returns the cached decision is not on a
\* 3rd frame, finds a decision computed earlier and returns it as it is,
\* leaving it in place; every other call is on a 3rd frame or finds no
\* decision computed earlier
C38_SkippedFrameReusesDecision ==
  [][/\ speechDetector'.returned = "cached" =>
          /\ speechDetector'.frameCount # 0
          /\ ~speechDetector.lastResult.null
          /\ speechDetector'.result = speechDetector.lastResult
          /\ speechDetector'.lastResult = speechDetector.lastResult
     /\ speechDetector'.returned \in {"neutral", "noFeatures", "computed"} =>
          (speechDetector'.frameCount = 0 \/ speechDetector.lastResult.null)]_vars

C38_Witness ==
  /\ speechDetector.returned = "cached" /\ speechDetector.extractor
  /\ speechDetector.result.isSpeech /\ speechDetector.frameCount = FrameSkip - 1

\* C39: the step in which stopRecording ends an active recording leaves no
\* silence-confirmation or fallback timer, no max-time timer, no timer that
\* starts the polling loop and no requested frame of that recording
C39_StopReleasesRecording ==
  [][(isRecordingRef /\ ~isRecordingRef') =>
       /\ silenceTimerRef' = NoTimer /\ maxTimeTimerRef' = -1
       /\ ~animationFrameRef' /\ detectDelay' = -1]_vars

\* the words of a string: what is left between spaces
RECURSIVE WordList(_, _, _)
WordList(str, cur, acc) ==
  IF str = << >>
  THEN IF cur = << >> THEN acc ELSE Append(acc, cur)
  ELSE IF Head(str) = " "
       THEN WordList(Tail(str), << >>, IF cur = << >> THEN acc ELSE Append(acc, cur))
       ELSE WordList(Tail(str), Append(cur, Head(str)), acc)

\* the twelve entries of the vocabulary as the specification lists them
ListedVocabulary ==
  STOP_KEYWORDS \ { <<"e","n","d"," ","c","o","n","v","e","r","s","a","t","i","o","n">>,
                    <<"t","h","a","n","k"," ","y","o","u">> }

\* C40: the transcript ends the conversation exactly when, lower-cased and
\* with its punctuation marks taken out, the words of an entry of the
\* listed vocabulary are consecutive words of it; otherwise it is forwarded
C40_StopsOnListedPhrase ==
  LET heard == WordList(ReplacePunct(ToLowerCase(stopCheck.transcript)), << >>, << >>)
      Has(k) == LET kw == WordList(k, << >>, << >>)
                IN \E p \in 1..Len(heard) :
                     /\ p + Len(kw) - 1 <= Len(heard)
                     /\ SubSeq(heard, p, p + Len(kw) - 1) = kw
  IN stopCheck.verdict # "none" =>
       /\ stopCheck.verdict = "endConversationWithStop"
             <=> \E k \in ListedVocabulary : Has(k)
       /\ stopCheck.verdict \in {"endConversationWithStop", "streamChatResponse"}

\* C40 as the code has it: the transcript ends the conversation exactly when
\* one of the fourteen entries of STOP_KEYWORDS stands in the lower-cased
\* transcript as it is written, with no letter a-z, digit or underscore
\* directly before or after it; otherwise it is forwarded
C40_StopsOnBoundedEntry ==
  LET str == ToLowerCase(stopCheck.transcript)
      Free(p) == p < 1 \/ p > Len(str) \/ ~IsWordChar(str[p])
      Stands(k) == \E p \in 1..Len(str) :
                     /\ p + Len(k) - 1 <= Len(str)
                     /\ SubSeq(str, p, p + Len(k) - 1) = k
                     /\ Free(p - 1) /\ Free(p + Len(k))
  IN stopCheck.verdict # "none" =>
       /\ stopCheck.verdict = "endConversationWithStop"
             <=> \E k \in STOP_KEYWORDS : Stands(k)
       /\ stopCheck.verdict \in {"endConversationWithStop", "streamChatResponse"}

C40_Witness ==
  /\ stopCheck.verdict = "endConversationWithStop"
  /\ stopCheck.transcript = <<"i"," ","T","h","a","n","k"," ","Y","o","u","!"," ">>

====
